---- MODULE Spec2Model ----
(***************************************************************************)
(* Model of the pinmaker layout-and-render pipeline.                       *)
(*                                                                         *)
(* Lengths are integers in units of 1/200000 pt, so that every constant of *)
(* types.ts (two decimals of a point, and mm * 2.83465) and every halving  *)
(* done by layout.ts is exact: 1 pt = 200000 units, 1 mm = 566930 units.   *)
(***************************************************************************)
EXTENDS Integers, Sequences, FiniteSets, TLC

(***************************************************************************)
(* Bounds of the model.                                                    *)
(***************************************************************************)
\* largest circle count handed to calculateLayout by the function harness
MaxCircles == 45
\* largest item count / slot count handed to createImageDistribution
MaxItems == 26
MaxSlots == 26
\* largest number of image paths / text pins of one generatePinPDF call
MaxImages == 25
MaxTexts == 7
\* widest border ring of a call of the slot renderers, in millimetres
MaxBorderWidth == 3
\* processImage is called with zoom 1/10 .. MaxZoom/10 and with offsets of up
\* to MaxOffset pixels either way
MaxZoom == 30
MaxOffset == 40
\* the rasters sampled by extractEdgeColor are 1x1 .. MaxSide x MaxSide pixels
MaxSide == 10
\* outline widths of a call of the text renderers: 0..MaxOutlineWidth
MaxOutlineWidth == 2
\* the interactive selector lists 1..MaxFiles image files, the user keeps at
\* most MaxSelected of them selected and types at most MaxQuery characters
\* into the filter
MaxFiles == 11
MaxSelected == 1
MaxQuery == 1
\* the web editor edits 1..MaxPins images with at most MaxPending preview
\* renders in flight, images are panned by at most MaxPan pixels either way
\* and at most MaxFingers fingers touch the canvas
MaxPins == 2
MaxPending == 2
MaxPan == 1
MaxFingers == 3

(***************************************************************************)
(* types.ts                                                                *)
(***************************************************************************)
PinSizes == {"32mm", "58mm"}

PIN_CONFIGS ==
  [size \in PinSizes |->
     IF size = "32mm"
     THEN [pinSize |-> 32, pinSizePt |-> 32 * 566930,
           circleSize |-> 43, circleSizePt |-> 43 * 566930,
           circlesPerPage |-> 20]
     ELSE [pinSize |-> 58, pinSizePt |-> 58 * 566930,
           circleSize |-> 70, circleSizePt |-> 70 * 566930,
           circlesPerPage |-> 6]]

A4_PAGE ==
  [pageWidth  |-> 119056000,   \* 595.28 pt
   pageHeight |-> 168378000,   \* 841.89 pt
   margin     |-> 5670000,     \* 28.35 pt
   spacing    |-> 2834000]     \* 14.17 pt

\* borderWidth * 2.83465: millimetres to points
MmToPt(mm) == mm * 566930

(***************************************************************************)
(* Math helpers used by the code                                           *)
(***************************************************************************)
\* Math.ceil(a / b) for a >= 0, b > 0
CeilDiv(a, b) == (a + b - 1) \div b

\* Math.ceil(Math.sqrt(n)) for n >= 0
CeilSqrt(n) == CHOOSE k \in 0..n : k * k >= n /\ (k = 0 \/ (k - 1) * (k - 1) < n)

MathMin(a, b) == IF a <= b THEN a ELSE b

MathMax(a, b) == IF a >= b THEN a ELSE b

SetMin(S) == CHOOSE m \in S : \A o \in S : m <= o

SetMax(S) == CHOOSE m \in S : \A o \in S : m >= o

(***************************************************************************)
(* core/layout.ts                                                          *)
(***************************************************************************)
\* the column scan of calculatePageLayout: first cols in 1..maxCols whose
\* rows fit the available height, else the default ceil(sqrt(n))
calculatePageLayout_squareGrid(circleCount, circleDiameter) ==
  LET bestCols == CeilSqrt(circleCount)
      bestRows == CeilDiv(circleCount, bestCols)
      totalWidthUsed  == bestCols * circleDiameter + (bestCols - 1) * A4_PAGE.spacing
      totalHeightUsed == bestRows * circleDiameter + (bestRows - 1) * A4_PAGE.spacing
  IN [rows |-> bestRows, cols |-> bestCols,
      startX |-> (A4_PAGE.pageWidth - totalWidthUsed) \div 2,
      startY |-> (A4_PAGE.pageHeight - totalHeightUsed) \div 2]

calculatePageLayout_widestFit(circleCount, circleDiameter) ==
  LET availableWidth  == A4_PAGE.pageWidth - 2 * A4_PAGE.margin
      availableHeight == A4_PAGE.pageHeight - 2 * A4_PAGE.margin
      maxCols == (availableWidth + A4_PAGE.spacing) \div (circleDiameter + A4_PAGE.spacing)
      defaultCols == CeilSqrt(circleCount)
      HeightUsed(rows) == rows * circleDiameter + (rows - 1) * A4_PAGE.spacing
      fitting == {cols \in 1..maxCols :
                    HeightUsed(CeilDiv(circleCount, cols)) <= availableHeight}
      bestCols == IF fitting = {} THEN defaultCols ELSE SetMax(fitting)
      bestRows == CeilDiv(circleCount, bestCols)
      totalWidthUsed  == bestCols * circleDiameter + (bestCols - 1) * A4_PAGE.spacing
      totalHeightUsed == HeightUsed(bestRows)
  IN [rows |-> bestRows, cols |-> bestCols,
      startX |-> (A4_PAGE.pageWidth - totalWidthUsed) \div 2,
      startY |-> (A4_PAGE.pageHeight - totalHeightUsed) \div 2]

calculatePageLayout(circleCount, circleDiameter) ==
  LET availableWidth  == A4_PAGE.pageWidth - 2 * A4_PAGE.margin
      availableHeight == A4_PAGE.pageHeight - 2 * A4_PAGE.margin
      maxCols == (availableWidth + A4_PAGE.spacing) \div (circleDiameter + A4_PAGE.spacing)
      defaultCols == CeilSqrt(circleCount)
      HeightUsed(rows) == rows * circleDiameter + (rows - 1) * A4_PAGE.spacing
      fitting == {cols \in 1..maxCols :
                    HeightUsed(CeilDiv(circleCount, cols)) <= availableHeight}
      bestCols == IF fitting = {} THEN defaultCols ELSE SetMin(fitting)
      bestRows == CeilDiv(circleCount, bestCols)
      totalWidthUsed  == bestCols * circleDiameter + (bestCols - 1) * A4_PAGE.spacing
      totalHeightUsed == HeightUsed(bestRows)
  IN [rows |-> bestRows, cols |-> bestCols,
      startX |-> (A4_PAGE.pageWidth - totalWidthUsed) \div 2,
      startY |-> (A4_PAGE.pageHeight - totalHeightUsed) \div 2]

\* start + index * (circleDiameter + spacing) + circleDiameter / 2
circleCentre_noSpacing(start, index, circleDiameter) ==
  start + index * (circleDiameter - A4_PAGE.spacing) + circleDiameter \div 2

circleCentre_cornerOrigin(start, index, circleDiameter) ==
  start + index * (circleDiameter + A4_PAGE.spacing)

circleCentre(start, index, circleDiameter) ==
  start + index * (circleDiameter + A4_PAGE.spacing) + circleDiameter \div 2

\* Math.ceil(totalCircles / config.circlesPerPage)
layoutTotalPages_floor(totalCircles, config) ==
  totalCircles \div config.circlesPerPage

layoutTotalPages(totalCircles, config) ==
  CeilDiv(totalCircles, config.circlesPerPage)

\* Math.min(circlesPerPage, totalCircles - page * circlesPerPage)
circlesOnThisPage(totalCircles, config, page) ==
  MathMin(config.circlesPerPage, totalCircles - page * config.circlesPerPage)

\* the inner loop of calculateLayout: the positions pushed for one page
pagePositions(totalCircles, config, page) ==
  LET circleDiameter == config.circleSizePt
      onPage == circlesOnThisPage(totalCircles, config, page)
      layout == calculatePageLayout(onPage, circleDiameter)
  IN [k \in 1..onPage |->
        LET i   == k - 1
            row == i \div layout.cols
            col == i % layout.cols
        IN [x |-> circleCentre(layout.startX, col, circleDiameter),
            y |-> circleCentre(layout.startY, row, circleDiameter),
            page |-> page]]

\* the outer loop of calculateLayout, from page to totalPages - 1
RECURSIVE layoutFromPage(_, _, _, _)
layoutFromPage(totalCircles, config, page, totalPages) ==
  IF page >= totalPages THEN <<>>
  ELSE pagePositions(totalCircles, config, page)
         \o layoutFromPage(totalCircles, config, page + 1, totalPages)

calculateLayout(totalCircles, config) ==
  IF totalCircles = 0 THEN <<>>
  ELSE layoutFromPage(totalCircles, config, 0, layoutTotalPages(totalCircles, config))

getTotalPages(positions) ==
  IF Len(positions) = 0 THEN 0
  ELSE SetMax({positions[k].page : k \in 1..Len(positions)}) + 1

(***************************************************************************)
(* core/pdf-generator.ts: createImageDistribution                          *)
(***************************************************************************)
\* copiesPerImage + (imageIdx < remainder ? 1 : 0)
copiesOf_extraToLast(imageIdx, imageCount, totalCircles) ==
  (totalCircles \div imageCount)
    + (IF imageIdx >= imageCount - (totalCircles % imageCount) THEN 1 ELSE 0)

copiesOf_noRemainder(imageIdx, imageCount, totalCircles) ==
  totalCircles \div imageCount

copiesOf(imageIdx, imageCount, totalCircles) ==
  (totalCircles \div imageCount)
    + (IF imageIdx < totalCircles % imageCount THEN 1 ELSE 0)

\* the inner loop: `copies` pushes of imageIdx
pushCopies(imageIdx, copies) == [c \in 1..copies |-> imageIdx]

\* the outer loop over imageIdx, from imageIdx to imageCount - 1
RECURSIVE distributeFrom(_, _, _)
distributeFrom(imageIdx, imageCount, totalCircles) ==
  IF imageIdx >= imageCount THEN <<>>
  ELSE pushCopies(imageIdx, copiesOf(imageIdx, imageCount, totalCircles))
         \o distributeFrom(imageIdx + 1, imageCount, totalCircles)

\* Array.from({ length: n }, (_, i) => i), also imagePaths.map((_, idx) => idx)
identityMapping(n) == [k \in 1..n |-> k - 1]

createImageDistribution_allItems(imageCount, totalCircles) ==
  IF imageCount <= totalCircles
  THEN distributeFrom(0, imageCount, totalCircles)
  ELSE identityMapping(imageCount)

createImageDistribution(imageCount, totalCircles) ==
  IF imageCount <= totalCircles
  THEN distributeFrom(0, imageCount, totalCircles)
  ELSE identityMapping(totalCircles)

(***************************************************************************)
(* core/pdf-generator.ts: the per-slot drawing functions.  A slot's draw   *)
(* operations are the sequence issued between doc.save() and doc.restore().*)
(***************************************************************************)
HexDigits == <<"0", "1", "2", "3", "4", "5", "6", "7",
               "8", "9", "a", "b", "c", "d", "e", "f">>

\* n.toString(16).padStart(2, '0') for n in 0..255
hexByte(n) == HexDigits[(n \div 16) + 1] \o HexDigits[(n % 16) + 1]

\* `#${r}${g}${b}` of an edge colour <<r, g, b>>
hexColor(edgeColor) ==
  "#" \o hexByte(edgeColor[1]) \o hexByte(edgeColor[2]) \o hexByte(edgeColor[3])

\* the test images: the edge colour extractEdgeColor samples from image k
\* (<<r, g, b>>; <<>> stands for undefined)
imageEdgeColor(imagePath) == <<(imagePath * 40) % 256, 128, 7>>

\* explicit backgroundColor > edgeColor > null ("" stands for null)
fillColorOf_edgeFirst(backgroundColor, edgeColor) ==
  IF edgeColor # <<>> THEN hexColor(edgeColor)
  ELSE IF backgroundColor # "" THEN backgroundColor
  ELSE ""

fillColorOf(backgroundColor, edgeColor) ==
  IF backgroundColor # "" THEN backgroundColor
  ELSE IF edgeColor # <<>> THEN hexColor(edgeColor)
  ELSE ""

\* the border ring / background block shared by both drawing functions:
\* outer disc in the border colour and inner disc in the fill colour (or
\* white), else a background disc when there is a fill colour
drawBorderAndBackground(x, y, circleRadius, fillColor, borderColor, borderWidth) ==
  IF borderColor # "" /\ borderWidth > 0
  THEN << [op |-> "fillCircle", x |-> x, y |-> y, r |-> circleRadius,
           color |-> borderColor],
          [op |-> "fillCircle", x |-> x, y |-> y, r |-> circleRadius - borderWidth,
           color |-> IF fillColor # "" THEN fillColor ELSE "white"] >>
  ELSE IF fillColor # ""
  THEN << [op |-> "fillCircle", x |-> x, y |-> y, r |-> circleRadius,
           color |-> fillColor] >>
  ELSE <<>>

\* doc.circle(x, y, circleRadius).stroke()
cuttingOutline_none(x, y, circleRadius) == <<>>

cuttingOutline(x, y, circleRadius) ==
  << [op |-> "strokeCircle", x |-> x, y |-> y, r |-> circleRadius] >>

\* the 8 outline offsets of drawTextOverlay, in the order of the source
outlineOffsets(w) ==
  << <<-w, -w>>, <<w, -w>>, <<-w, w>>, <<w, w>>,
     <<0, -w>>, <<0, w>>, <<-w, 0>>, <<w, 0>> >>

\* one line of drawTextOverlay: the outline copies, then the fill text
drawTextLine(line, x, textColor, textOutline, textOutlineWidth) ==
  (IF textOutline # "" /\ textOutlineWidth > 0
   THEN [k \in 1..8 |->
           [op |-> "text", text |-> line.text, x |-> x,
            dx |-> outlineOffsets(textOutlineWidth)[k][1],
            dy |-> outlineOffsets(textOutlineWidth)[k][2],
            color |-> textOutline]]
   ELSE <<>>)
  \o << [op |-> "text", text |-> line.text, x |-> x, dx |-> 0, dy |-> 0,
         color |-> textColor] >>

RECURSIVE drawTextLines(_, _, _, _, _, _)
drawTextLines(textPin, i, x, textColor, textOutline, textOutlineWidth) ==
  IF i > Len(textPin) THEN <<>>
  ELSE drawTextLine(textPin[i], x, textColor, textOutline, textOutlineWidth)
         \o drawTextLines(textPin, i + 1, x, textColor, textOutline, textOutlineWidth)

drawTextOverlay(textPin, x, textColor, textOutline, textOutlineWidth) ==
  IF Len(textPin) = 0 THEN <<>>
  ELSE drawTextLines(textPin, 1, x, textColor, textOutline, textOutlineWidth)

drawEmptyCircle(x, y, pinDiameter, circleDiameter, backgroundColor, borderColor, borderWidth, textPin, textColor, textOutline, textOutlineWidth) ==
  LET circleRadius == circleDiameter \div 2
  IN drawBorderAndBackground(x, y, circleRadius, backgroundColor, borderColor, borderWidth)
     \o cuttingOutline(x, y, circleRadius)
     \o (IF Len(textPin) > 0
         THEN drawTextOverlay(textPin, x, textColor, textOutline, textOutlineWidth)
         ELSE <<>>)

drawCircularImage(foregroundBuffer, edgeColor, x, y, pinDiameter, circleDiameter, backgroundColor, borderColor, borderWidth, textPin, textColor, textOutline, textOutlineWidth) ==
  LET circleRadius == circleDiameter \div 2
      pinRadius    == pinDiameter \div 2
      fillColor    == fillColorOf(backgroundColor, edgeColor)
  IN drawBorderAndBackground(x, y, circleRadius, fillColor, borderColor, borderWidth)
     \o << [op |-> "image", image |-> foregroundBuffer,
            x |-> x - pinRadius, y |-> y - pinRadius,
            width |-> pinDiameter, height |-> pinDiameter] >>
     \o cuttingOutline(x, y, circleRadius)
     \o drawTextOverlay(textPin, x, textColor, textOutline, textOutlineWidth)

(***************************************************************************)
(* State                                                                   *)
(***************************************************************************)
VARIABLES
  args,              \* the arguments of the running generatePinPDF call
  pc,                \* where the call stands
  circleIdx,         \* loop counter of the processing / rendering loop
  processedCircles,  \* results of processImage, one per processed circle
  doc,               \* the PDFDocument: created, pages (slots drawn), ended
  outputFile,        \* the write stream on outputPath: absent / open / finished
  currentPage,       \* page index of the page being drawn on
  error,             \* what the call threw to its caller ("" = nothing)
  call,              \* the last call of a pure function, with its result
  imageFiles,        \* selector: the image files of the directory
  selected,          \* selector: the Set of selected files
  currentIndex,      \* selector: cursor row in filteredAndSorted (0-based)
  scrollOffset,      \* selector: first visible row
  sortBy,            \* selector: current sort option
  filterQuery,       \* selector: the filter text typed so far
  showingFilterInput, \* selector: TRUE in filter mode
  filteredAndSorted, \* selector: the list computed by the last render
  resolved,          \* selector: what the promise resolved to, if it did
  stateImages,       \* editor: state.images (zoom in hundredths, offsets in px)
  currentImageIndex, \* editor: state.currentImageIndex
  sliderZoom,        \* editor: elements.sliderZoom.value, in percent
  touchState,        \* editor: the gesture state of the preview canvas
  touchCount,        \* editor: number of fingers on the canvas (e.touches.length)
  pendingRenders,    \* editor: renderPinPreview calls awaiting processImageForCircle
  canvasPreview      \* editor: what the preview canvas shows

selectorVars == <<imageFiles, selected, currentIndex, scrollOffset, sortBy,
                  filterQuery, showingFilterInput, filteredAndSorted, resolved>>

editorVars == <<stateImages, currentImageIndex, sliderZoom, touchState, touchCount,
                pendingRenders, canvasPreview>>

frontVars == <<selectorVars, editorVars>>

vars == <<args, pc, circleIdx, processedCircles, doc, outputFile, currentPage,
          error, call, frontVars>>

genVars == <<args, pc, circleIdx, processedCircles, doc, outputFile, currentPage,
             error>>

(***************************************************************************)
(* core/pdf-generator.ts: generatePinPDF                                   *)
(***************************************************************************)
\* imagePaths are the test images 1..n, textPins one-line text blocks 1..n
imagePathsOf(n) == [k \in 1..n |-> k]

textPinsOf(n) == [k \in 1..n |-> << [text |-> k] >>]

Arguments ==
  [imagePaths : {imagePathsOf(n) : n \in 0..MaxImages},
   pinSize : PinSizes,
   fill : BOOLEAN,
   duplicate : BOOLEAN,
   backgroundColor : {"", "red"},
   borderColor : {"", "black"},
   borderWidth : {0, 1},
   textPins : {textPinsOf(n) : n \in 0..MaxTexts},
   textColor : {"white"},
   textOutline : {"black"},
   textOutlineWidth : {2}]

config == PIN_CONFIGS[args.pinSize]

\* slot count of the template branch (no images)
templateTotalCircles_max(textPins, duplicate, cfg) ==
  IF Len(textPins) > 0
  THEN MathMax(Len(textPins), cfg.circlesPerPage)
  ELSE cfg.circlesPerPage

templateTotalCircles(textPins, duplicate, cfg) ==
  IF Len(textPins) > 0 /\ duplicate
  THEN MathMax(Len(textPins), cfg.circlesPerPage)
  ELSE IF Len(textPins) > 0
       THEN Len(textPins)
       ELSE cfg.circlesPerPage

\* slot count of the image branch
imageTotalCircles_alwaysFill(imagePaths, duplicate, cfg) ==
  MathMax(Len(imagePaths), cfg.circlesPerPage)

imageTotalCircles(imagePaths, duplicate, cfg) ==
  IF duplicate
  THEN MathMax(Len(imagePaths), cfg.circlesPerPage)
  ELSE Len(imagePaths)

totalCircles ==
  IF Len(args.imagePaths) = 0
  THEN templateTotalCircles(args.textPins, args.duplicate, config)
  ELSE imageTotalCircles(args.imagePaths, args.duplicate, config)

positions == calculateLayout(totalCircles, config)

imageDistribution_roundRobin ==
  IF args.duplicate
  THEN [k \in 1..totalCircles |-> (k - 1) % Len(args.imagePaths)]
  ELSE identityMapping(Len(args.imagePaths))

imageDistribution ==
  IF args.duplicate
  THEN createImageDistribution(Len(args.imagePaths), totalCircles)
  ELSE identityMapping(Len(args.imagePaths))

\* text distribution of the image branch
textDistribution_identityUnlessDuplicate ==
  IF args.duplicate /\ Len(args.textPins) > 0
  THEN createImageDistribution(Len(args.textPins), totalCircles)
  ELSE identityMapping(totalCircles)

textDistribution ==
  IF Len(args.textPins) > 0
  THEN createImageDistribution(Len(args.textPins), totalCircles)
  ELSE identityMapping(totalCircles)

\* text distribution of the template branch
templateTextDistribution ==
  IF args.duplicate /\ Len(args.textPins) > 0
  THEN createImageDistribution(Len(args.textPins), totalCircles)
  ELSE identityMapping(totalCircles)

\* textPins[textIdx] || []
textPinAt(textPins, textIdx) ==
  IF textIdx + 1 \in DOMAIN textPins THEN textPins[textIdx + 1] ELSE <<>>

\* if (position.page !== currentPage)
needsNewPage_always(position, current) == TRUE

needsNewPage(position, current) == position.page # current

\* doc.addPage when the slot's page differs, then the slot's draw operations
\* go onto the last page of the document
drawOnDocument(d, position, current, slot) ==
  LET pages == IF needsNewPage(position, current)
               THEN Append(d.pages, <<>>)
               ELSE d.pages
  IN [d EXCEPT !.pages = [pages EXCEPT ![Len(pages)] = Append(@, slot)]]

NewDocument == [created |-> TRUE, pages |-> <<>>, ended |-> FALSE]

NoDocument == [created |-> FALSE, pages |-> <<>>, ended |-> FALSE]

\* imagePaths.length === 0: the template branch creates document and stream
StartTemplate ==
  /\ pc = "entry"
  /\ Len(args.imagePaths) = 0
  /\ doc' = NewDocument
  /\ outputFile' = "open"
  /\ currentPage' = -1
  /\ circleIdx' = 0
  /\ pc' = "template"
  /\ UNCHANGED <<args, processedCircles, error, call, frontVars>>

\* one iteration of the template loop
TemplateCircle ==
  /\ pc = "template"
  /\ circleIdx < totalCircles
  /\ LET position == positions[circleIdx + 1]
         textIdx  == templateTextDistribution[circleIdx + 1]
         ops == drawEmptyCircle(position.x, position.y, config.pinSizePt,
                                config.circleSizePt, args.backgroundColor,
                                args.borderColor, MmToPt(args.borderWidth),
                                textPinAt(args.textPins, textIdx), args.textColor,
                                args.textOutline, args.textOutlineWidth)
     IN /\ doc' = drawOnDocument(doc, position, currentPage,
                                 [circleIdx |-> circleIdx, ops |-> ops])
        /\ currentPage' = position.page
  /\ circleIdx' = circleIdx + 1
  /\ UNCHANGED <<args, pc, processedCircles, outputFile, error, call, frontVars>>

\* images given: the processing loop starts, nothing is created yet
StartProcessing ==
  /\ pc = "entry"
  /\ Len(args.imagePaths) > 0
  /\ circleIdx' = 0
  /\ pc' = "process"
  /\ UNCHANGED <<args, processedCircles, doc, outputFile, currentPage, error, call, frontVars>>

\* one iteration of the processing loop, processImage returning
ProcessCircle ==
  /\ pc = "process"
  /\ circleIdx < totalCircles
  /\ LET imageIdx  == imageDistribution[circleIdx + 1]
         imagePath == args.imagePaths[imageIdx + 1]
     IN processedCircles' =
          Append(processedCircles,
                 [foreground |-> imagePath,
                  edgeColor  |-> IF args.fill THEN imageEdgeColor(imagePath) ELSE <<>>])
  /\ circleIdx' = circleIdx + 1
  /\ UNCHANGED <<args, pc, doc, outputFile, currentPage, error, call, frontVars>>

\* one iteration of the processing loop, processImage throwing (unreadable
\* image, zero dimensions): the error is rethrown and leaves generatePinPDF
ProcessCircleFails_streamOpened ==
  /\ pc = "process"
  /\ circleIdx < totalCircles
  /\ pc' = "failed"
  /\ error' = "processImage"
  /\ doc' = NewDocument
  /\ outputFile' = "open"
  /\ UNCHANGED <<args, circleIdx, processedCircles, currentPage, call, frontVars>>

ProcessCircleFails ==
  /\ pc = "process"
  /\ circleIdx < totalCircles
  /\ pc' = "failed"
  /\ error' = "processImage"
  /\ UNCHANGED <<args, circleIdx, processedCircles, doc, outputFile, currentPage, call, frontVars>>

\* after the processing loop: new PDFDocument, fs.createWriteStream, doc.pipe
CreateDocument ==
  /\ pc = "process"
  /\ circleIdx = totalCircles
  /\ doc' = NewDocument
  /\ outputFile' = "open"
  /\ currentPage' = -1
  /\ circleIdx' = 0
  /\ pc' = "render"
  /\ UNCHANGED <<args, processedCircles, error, call, frontVars>>

\* one iteration of the rendering loop
RenderCircle ==
  /\ pc = "render"
  /\ circleIdx < totalCircles
  /\ LET position == positions[circleIdx + 1]
         textIdx  == textDistribution[circleIdx + 1]
         ops == drawCircularImage(
                  processedCircles[circleIdx + 1].foreground,
                  IF args.fill THEN processedCircles[circleIdx + 1].edgeColor ELSE <<>>,
                  position.x, position.y, config.pinSizePt, config.circleSizePt,
                  args.backgroundColor, args.borderColor, MmToPt(args.borderWidth),
                  textPinAt(args.textPins, textIdx), args.textColor,
                  args.textOutline, args.textOutlineWidth)
     IN /\ doc' = drawOnDocument(doc, position, currentPage,
                                 [circleIdx |-> circleIdx, ops |-> ops])
        /\ currentPage' = position.page
  /\ circleIdx' = circleIdx + 1
  /\ UNCHANGED <<args, pc, processedCircles, outputFile, error, call, frontVars>>

\* doc.end() and the stream's finish event
FinishDocument ==
  /\ pc \in {"template", "render"}
  /\ circleIdx = totalCircles
  /\ doc' = [doc EXCEPT !.ended = TRUE]
  /\ outputFile' = "finished"
  /\ pc' = "done"
  /\ UNCHANGED <<args, circleIdx, processedCircles, currentPage, error, call, frontVars>>

NoCall == [fn |-> "none"]

\* no interactive selector and no web editor is running
SelectorIdle ==
  /\ imageFiles = <<>>
  /\ selected = {}
  /\ currentIndex = 0
  /\ scrollOffset = 0
  /\ sortBy = "name"
  /\ filterQuery = <<>>
  /\ showingFilterInput = FALSE
  /\ filteredAndSorted = <<>>
  /\ resolved = [kind |-> "idle", images |-> {}]

\* the canvas with nothing drawn on it
BlankCanvas == [pin |-> -1, zoom |-> 0, offsetX |-> 0, offsetY |-> 0]

\* let touchState = {...}
InitialTouchState ==
  [isPanning |-> FALSE, startX |-> 0, startY |-> 0, lastOffsetX |-> 0, lastOffsetY |-> 0,
   isPinching |-> FALSE, initialDistance |-> 0, initialZoom |-> 100]

EditorIdle ==
  /\ stateImages = <<>>
  /\ currentImageIndex = 0
  /\ sliderZoom = 0
  /\ touchState = InitialTouchState
  /\ touchCount = 0
  /\ pendingRenders = <<>>
  /\ canvasPreview = BlankCanvas

FrontEndIdle == SelectorIdle /\ EditorIdle

Init ==
  /\ args \in Arguments
  /\ pc = "entry"
  /\ circleIdx = 0
  /\ processedCircles = <<>>
  /\ doc = NoDocument
  /\ outputFile = "absent"
  /\ currentPage = -1
  /\ error = ""
  /\ call = NoCall
  /\ FrontEndIdle

Next ==
  \/ StartTemplate
  \/ TemplateCircle
  \/ StartProcessing
  \/ ProcessCircle
  \/ ProcessCircleFails
  \/ CreateDocument
  \/ RenderCircle
  \/ FinishDocument

Spec == Init /\ [][Next]_vars

(***************************************************************************)
(* web/src/lib/pdf-generator.js: what generatePDF draws for one slot.      *)
(* pdf-lib's drawCircle takes the radius as `size`; the operations carry   *)
(* size2 = 2 * size, which keeps the mid-radius of the ring a whole number *)
(* of length units.                                                        *)
(***************************************************************************)
\* Math.round of a length in points: the nearest whole number of points
MathRoundPt(v) == (2 * v + 200000) \div 400000

\* parseColor on the named colours (<<r, g, b>> in 0..255); an unknown name
\* is black
parseColor(color) ==
  CASE color = "white" -> <<255, 255, 255>>
    [] color = "black" -> <<0, 0, 0>>
    [] color = "red"   -> <<255, 0, 0>>
    [] color = "green" -> <<0, 255, 0>>
    [] color = "blue"  -> <<0, 0, 255>>
    [] OTHER           -> <<0, 0, 0>>

\* the PNG of the processing loop: the processed bitmap drawn on a canvas of
\* Math.round(pinSizePt) pixels under the circular clipping path
webClippedImage(bitmap, cfg) ==
  [bitmap |-> bitmap,
   canvas |-> MathRoundPt(cfg.pinSizePt),
   clip   |-> [x |-> cfg.pinSizePt \div 2, y |-> cfg.pinSizePt \div 2,
               r |-> cfg.pinSizePt \div 2]]

\* bgColor: the explicit colour, else the edge colour when filling (<<>> is
\* undefined)
webBgColor(imageState, edgeColor) ==
  IF imageState.backgroundColor # "" THEN parseColor(imageState.backgroundColor)
  ELSE IF imageState.fillWithEdgeColor /\ edgeColor # <<>> THEN edgeColor
  ELSE <<>>

\* the border ring as one stroked circle at the ring's mid-radius
webBorderRing(x, y, cfg, imageState) ==
  IF imageState.borderColor # "" /\ imageState.borderWidth > 0
  THEN LET borderWidthPt     == MmToPt(imageState.borderWidth)
           circleDiameter    == cfg.circleSizePt
           pinDiameter       == cfg.pinSizePt
           gapDiameter       == circleDiameter - pinDiameter
           totalGapDiameter  == gapDiameter + borderWidthPt
           borderInnerDiam   == circleDiameter - totalGapDiameter
           borderOuterDiam   == circleDiameter
           borderRingWidth   == (borderOuterDiam - borderInnerDiam) \div 2
           \* 2 * borderMidRadius = 2 * borderInnerRadius + borderRingWidth
           borderMidRadius2  == borderInnerDiam + borderRingWidth
       IN << [op |-> "drawCircle", x |-> x, y |-> y, size2 |-> borderMidRadius2,
              borderColor |-> parseColor(imageState.borderColor),
              borderWidth |-> borderRingWidth] >>
  ELSE <<>>

\* one iteration of the rendering loop of generatePDF
webRenderCircle(imageData, edgeColor, position, cfg, imageState, showPinGuide) ==
  LET x       == position.x
      y       == A4_PAGE.pageHeight - position.y
      bgColor == webBgColor(imageState, edgeColor)
  IN (IF bgColor # <<>>
      THEN << [op |-> "drawCircle", x |-> x, y |-> y, size2 |-> cfg.circleSizePt,
               color |-> bgColor] >>
      ELSE <<>>)
     \o << [op |-> "drawImage", image |-> imageData,
            x |-> position.x - cfg.pinSizePt \div 2,
            y |-> A4_PAGE.pageHeight - position.y - cfg.pinSizePt \div 2,
            width |-> cfg.pinSizePt, height |-> cfg.pinSizePt] >>
     \o webBorderRing(x, y, cfg, imageState)
     \o << [op |-> "drawCircle", x |-> x, y |-> y, size2 |-> cfg.circleSizePt,
            borderColor |-> <<0, 0, 0>>, borderWidth |-> 200000] >>
     \o (IF showPinGuide
         THEN << [op |-> "drawCircle", x |-> x, y |-> y, size2 |-> cfg.pinSizePt,
                  borderColor |-> <<128, 128, 128>>, borderWidth |-> 100000] >>
         ELSE <<>>)
     \o [k \in 1..Len(imageState.textLines) |->
           [op |-> "drawText", text |-> imageState.textLines[k].text, x |-> x,
            color |-> parseColor(imageState.textColor)]]

(***************************************************************************)
(* core/pdf-generator.ts processImage and the web application's            *)
(* processImageForCircle: the geometry of the image transform.  Sizes are  *)
(* pixels; zoom is given in tenths (10 is zoom 1.0).  A source image is    *)
(* its [width, height]; the resized image is the zoomedSize square holding *)
(* the source scaled by scale.num / scale.den ('contain').                 *)
(***************************************************************************)
\* Math.round(n2 / 2): halves round up
MathRoundHalf(n2) == (n2 + 1) \div 2

\* const boundarySize = Math.round(circleDiameter)
boundarySizeOf(circleDiameter) == MathRoundPt(circleDiameter)

\* const zoomedSize = Math.round(boundarySize * zoom)
zoomedSizeOf(boundarySize, zoom) == (2 * boundarySize * zoom + 10) \div 20

\* resize(zoomedSize, zoomedSize, {fit: 'contain'}): the factor the source
\* is scaled by
containScale(source, zoomedSize) ==
  [num |-> zoomedSize, den |-> MathMax(source.width, source.height)]

\* zoom >= 1.0 || (offsetX !== 0 || offsetY !== 0)
needsViewportExtraction(zoom, offsetX, offsetY) ==
  zoom >= 10 \/ (offsetX # 0 \/ offsetY # 0)

\* zoom >= 1.0 ? zoomedSize : Math.round(boundarySize * 1.5)
canvasSizeOf_zoomedAlways(boundarySize, zoomedSize, zoom) == zoomedSize

canvasSizeOf(boundarySize, zoomedSize, zoom) ==
  IF zoom >= 10 THEN zoomedSize ELSE MathRoundHalf(3 * boundarySize)

\* the boundarySize square both transformers build before the crop: by
\* viewport extraction from the working canvas, or by the simple centred
\* composite.  (originX, originY) is the pixel of the resized image shown at
\* pixel (0, 0) of the square.
viewportImageOf(boundarySize, zoomedSize, zoom, offsetX, offsetY) ==
  IF needsViewportExtraction(zoom, offsetX, offsetY)
  THEN LET canvasSize  == canvasSizeOf(boundarySize, zoomedSize, zoom)
           imageLeft   == MathRoundHalf(canvasSize - zoomedSize + 2 * offsetX)
           imageTop    == MathRoundHalf(canvasSize - zoomedSize + 2 * offsetY)
           extractLeft == MathRoundHalf(canvasSize - boundarySize)
           extractTop  == MathRoundHalf(canvasSize - boundarySize)
       IN [extraction |-> TRUE, canvasSize |-> canvasSize,
           imageLeft |-> imageLeft, imageTop |-> imageTop,
           extractLeft |-> extractLeft, extractTop |-> extractTop,
           width |-> boundarySize, height |-> boundarySize,
           originX |-> extractLeft - imageLeft, originY |-> extractTop - imageTop]
  ELSE LET left == MathRoundHalf(boundarySize - zoomedSize)
           top  == MathRoundHalf(boundarySize - zoomedSize)
       IN [extraction |-> FALSE, canvasSize |-> boundarySize,
           imageLeft |-> left, imageTop |-> top,
           extractLeft |-> 0, extractTop |-> 0,
           width |-> boundarySize, height |-> boundarySize,
           originX |-> 0 - left, originY |-> 0 - top]

\* the crop to the pin diameter: extract({left: cropOffset, top: cropOffset,
\* width: Math.round(pinDiameter), height: Math.round(pinDiameter)})
cropToPin(viewport, pinDiameter, circleDiameter) ==
  IF circleDiameter > pinDiameter
  THEN LET cropOffset == MathRoundPt((circleDiameter - pinDiameter) \div 2)
       IN [cropped |-> TRUE, cropLeft |-> cropOffset, cropTop |-> cropOffset,
           width |-> MathRoundPt(pinDiameter), height |-> MathRoundPt(pinDiameter),
           originX |-> viewport.originX + cropOffset,
           originY |-> viewport.originY + cropOffset]
  ELSE [cropped |-> FALSE, cropLeft |-> 0, cropTop |-> 0,
        width |-> viewport.width, height |-> viewport.height,
        originX |-> viewport.originX, originY |-> viewport.originY]

\* the CLI's processImage: the crop follows either branch
processImage(source, pinDiameter, circleDiameter, zoom, offsetX, offsetY) ==
  LET boundarySize == boundarySizeOf(circleDiameter)
      zoomedSize   == zoomedSizeOf(boundarySize, zoom)
      viewport     == viewportImageOf(boundarySize, zoomedSize, zoom, offsetX, offsetY)
  IN [boundarySize |-> boundarySize, zoomedSize |-> zoomedSize,
      scale |-> containScale(source, zoomedSize), viewport |-> viewport,
      foreground |-> cropToPin(viewport, pinDiameter, circleDiameter)]

\* the web application's processImageForCircle: the crop is part of the
\* viewport-extraction branch only; the simple composite returns the
\* boundarySize canvas
processImageForCircle(source, pinDiameter, circleDiameter, zoom, offsetX, offsetY) ==
  LET boundarySize == boundarySizeOf(circleDiameter)
      zoomedSize   == zoomedSizeOf(boundarySize, zoom)
      viewport     == viewportImageOf(boundarySize, zoomedSize, zoom, offsetX, offsetY)
  IN [boundarySize |-> boundarySize, zoomedSize |-> zoomedSize,
      scale |-> containScale(source, zoomedSize), viewport |-> viewport,
      foreground |-> IF viewport.extraction
                     THEN cropToPin(viewport, pinDiameter, circleDiameter)
                     ELSE [cropped |-> FALSE, cropLeft |-> 0, cropTop |-> 0,
                           width |-> viewport.width, height |-> viewport.height,
                           originX |-> viewport.originX,
                           originY |-> viewport.originY]]

(***************************************************************************)
(* extractEdgeColor: the CLI's sampler (core/pdf-generator.ts), the web     *)
(* application's ring-search sampler (image-processing.js) and the older   *)
(* sampler of src/core/pdf-generator.ts.  A raster is its width and height *)
(* and its pixels [r, g, b, a]: `bg` everywhere but `spot` at (spotX,      *)
(* spotY).  A colour is <<r, g, b>>.                                       *)
(***************************************************************************)
\* a component that is NaN or Infinity (a division by pixelCount = 0)
NotFinite == -1

pixelAt(raster, x, y) ==
  IF x = raster.spotX /\ y = raster.spotY THEN raster.spot ELSE raster.bg

\* the pixels the single-ring samplers visit: top and bottom row over the
\* whole width, then left and right column without the corners
edgePixels(raster) ==
  LET w == raster.width
      h == raster.height
  IN [k \in 1..w |-> pixelAt(raster, k - 1, 0)]
     \o [k \in 1..w |-> pixelAt(raster, k - 1, h - 1)]
     \o [k \in 1..MathMax(h - 2, 0) |-> pixelAt(raster, 0, k)]
     \o [k \in 1..MathMax(h - 2, 0) |-> pixelAt(raster, w - 1, k)]

\* the pixels the web sampler visits on the ring `inset` pixels inside
ringPixels(raster, inset) ==
  LET w == raster.width
      h == raster.height
      rowLen == w - inset * 2
      colLen == h - inset * 2 - 2
  IN (IF inset < h
      THEN [k \in 1..rowLen |-> pixelAt(raster, inset + k - 1, inset)]
           \o [k \in 1..rowLen |-> pixelAt(raster, inset + k - 1, h - 1 - inset)]
      ELSE <<>>)
     \o (IF inset < w /\ colLen > 0
         THEN [k \in 1..colLen |-> pixelAt(raster, inset, inset + k)]
              \o [k \in 1..colLen |-> pixelAt(raster, w - 1 - inset, inset + k)]
         ELSE <<>>)

\* totalR, totalG, totalB of the pixels lo..hi of a sequence: the loop's
\* running sums, added up half by half (integer addition is associative)
RECURSIVE totalsOf(_, _, _)
totalsOf(pixels, lo, hi) ==
  IF lo > hi THEN <<0, 0, 0>>
  ELSE IF lo = hi THEN <<pixels[lo].r, pixels[lo].g, pixels[lo].b>>
  ELSE LET mid   == (lo + hi) \div 2
           left  == totalsOf(pixels, lo, mid)
           right == totalsOf(pixels, mid + 1, hi)
       IN <<left[1] + right[1], left[2] + right[2], left[3] + right[3]>>

\* Math.round(total / pixelCount), component by component
averageOf(totals, pixelCount) ==
  IF pixelCount = 0 THEN <<NotFinite, NotFinite, NotFinite>>
  ELSE [c \in 1..3 |-> (2 * totals[c] + pixelCount) \div (2 * pixelCount)]

\* the CLI's extractEdgeColor: alphaThreshold = 10, black when no pixel counts
extractEdgeColor(raster) ==
  LET counted == SelectSeq(edgePixels(raster), LAMBDA px : px.a > 10)
  IN IF Len(counted) = 0 THEN <<0, 0, 0>>
     ELSE averageOf(totalsOf(counted, 1, Len(counted)), Len(counted))

\* the older extractEdgeColor: every edge pixel is summed, and
\* pixelCount = width * 2 + (height - 2) * 2
olderExtractEdgeColor(raster) ==
  LET pixels == edgePixels(raster)
  IN averageOf(totalsOf(pixels, 1, Len(pixels)),
               raster.width * 2 + (raster.height - 2) * 2)

\* the web sampler's loop: for (inset = 0; inset <= maxInset && pixelCount <
\* 100; inset += insetStep), with maxInset = min(width, height) * 0.1 and
\* insetStep = max(1, floor(maxInset / 5)); `counted` are the pixels above
\* alphaThreshold = 128 so far
RECURSIVE webSampleRings(_, _, _)
webSampleRings(raster, inset, counted) ==
  LET shorter   == MathMin(raster.width, raster.height)
      insetStep == MathMax(1, shorter \div 50)
  IN IF 10 * inset <= shorter /\ Len(counted) < 100
     THEN webSampleRings(raster, inset + insetStep,
            counted \o SelectSeq(ringPixels(raster, inset), LAMBDA px : px.a > 128))
     ELSE counted

\* the web application's extractEdgeColor: white when no pixel counts
webExtractEdgeColor(raster) ==
  LET counted == webSampleRings(raster, 0, <<>>)
  IN IF Len(counted) = 0 THEN <<255, 255, 255>>
     ELSE averageOf(totalsOf(counted, 1, Len(counted)), Len(counted))

(***************************************************************************)
(* The pure functions, called on their own: every call of calculateLayout  *)
(* and createImageDistribution within the bounds.  A behaviour makes one   *)
(* call; the functions keep no state between calls.                        *)
(***************************************************************************)
IdleArguments ==
  [imagePaths |-> <<>>, pinSize |-> "32mm", fill |-> FALSE, duplicate |-> FALSE,
   backgroundColor |-> "", borderColor |-> "", borderWidth |-> 0,
   textPins |-> <<>>, textColor |-> "white", textOutline |-> "black",
   textOutlineWidth |-> 2]

CallCalculateLayout ==
  \E n \in 0..MaxCircles, size \in PinSizes :
    /\ call.fn = "none"
    /\ call' = [fn |-> "calculateLayout", totalCircles |-> n, pinSize |-> size,
                result |-> calculateLayout(n, PIN_CONFIGS[size]),
                totalPages |-> getTotalPages(calculateLayout(n, PIN_CONFIGS[size]))]
    /\ UNCHANGED <<genVars, frontVars>>

\* the callers pass imageCount >= 1 (imagePaths.length or textPins.length,
\* both tested non-zero before the call) and totalCircles >= 1
CallCreateImageDistribution ==
  \E imageCount \in 1..MaxItems, slots \in 1..MaxSlots :
    /\ call.fn = "none"
    /\ call' = [fn |-> "createImageDistribution", imageCount |-> imageCount,
                totalCircles |-> slots,
                result |-> createImageDistribution(imageCount, slots)]
    /\ UNCHANGED <<genVars, frontVars>>

\* the per-slot settings of the web application's state.images[...]
ImageStates ==
  [backgroundColor : {"", "red"},
   fillWithEdgeColor : BOOLEAN,
   borderColor : {"", "black"},
   borderWidth : 0..MaxBorderWidth,
   textLines : {<<>>, << [text |-> 1] >>},
   textColor : {"white"}]

\* one slot showing image 1 at the first position of the page, rendered by
\* the CLI's drawCircularImage and by the web application's generatePDF
CallRenderCircle ==
  \E size \in PinSizes, imageState \in ImageStates, showPinGuide \in BOOLEAN :
    LET cfg       == PIN_CONFIGS[size]
        position  == calculateLayout(1, cfg)[1]
        edgeColor == IF imageState.fillWithEdgeColor THEN imageEdgeColor(1) ELSE <<>>
    IN /\ call.fn = "none"
       /\ call' = [fn |-> "renderCircle", pinSize |-> size, position |-> position,
                   imageState |-> imageState, showPinGuide |-> showPinGuide,
                   cli |-> drawCircularImage(
                             1, edgeColor, position.x, position.y, cfg.pinSizePt,
                             cfg.circleSizePt, imageState.backgroundColor,
                             imageState.borderColor, MmToPt(imageState.borderWidth),
                             imageState.textLines, imageState.textColor, "black", 2),
                   web |-> webRenderCircle(webClippedImage(1, cfg), edgeColor, position,
                                           cfg, imageState, showPinGuide)]
       /\ UNCHANGED <<genVars, frontVars>>

\* the source images of a call: a square of exactly the pin diameter, a
\* square of the cutting-circle diameter and a 2:1 landscape image
SourceImages(cfg) ==
  { [width |-> MathRoundPt(cfg.pinSizePt), height |-> MathRoundPt(cfg.pinSizePt)],
    [width |-> MathRoundPt(cfg.circleSizePt), height |-> MathRoundPt(cfg.circleSizePt)],
    [width |-> 200, height |-> 100] }

Offsets == {0 - MaxOffset, -1, 0, 1, MaxOffset}

\* one image prepared by the CLI's processImage and by the web
\* application's processImageForCircle
CallProcessImage ==
  \E size \in PinSizes, zoom \in 1..MaxZoom, offsetX \in Offsets, offsetY \in Offsets :
    \E source \in SourceImages(PIN_CONFIGS[size]) :
      LET cfg == PIN_CONFIGS[size]
      IN /\ call.fn = "none"
         /\ call' = [fn |-> "processImage", pinSize |-> size, source |-> source,
                     zoom |-> zoom, offsetX |-> offsetX, offsetY |-> offsetY,
                     cli |-> processImage(source, cfg.pinSizePt, cfg.circleSizePt,
                                          zoom, offsetX, offsetY),
                     web |-> processImageForCircle(source, cfg.pinSizePt,
                                                   cfg.circleSizePt, zoom,
                                                   offsetX, offsetY)]
         /\ UNCHANGED <<genVars, frontVars>>

\* the pixels of the sampled rasters: fully transparent, alpha at the CLI's
\* threshold, alpha at the web sampler's threshold, opaque
Pixels ==
  { [r |-> 0, g |-> 0, b |-> 0, a |-> 0],
    [r |-> 200, g |-> 100, b |-> 50, a |-> 10],
    [r |-> 10, g |-> 20, b |-> 30, a |-> 128],
    [r |-> 255, g |-> 0, b |-> 0, a |-> 255] }

\* rasters of every size up to MaxSide, with the spot in a corner or in the
\* middle
Rasters ==
  { [width |-> w, height |-> h, bg |-> bg, spot |-> spot,
     spotX |-> IF centred THEN w \div 2 ELSE 0,
     spotY |-> IF centred THEN h \div 2 ELSE 0] :
      w \in 1..MaxSide, h \in 1..MaxSide, bg \in Pixels, spot \in Pixels,
      centred \in BOOLEAN }

\* one raster sampled by the three samplers
CallExtractEdgeColor ==
  \E raster \in Rasters :
    /\ call.fn = "none"
    /\ call' = [fn |-> "extractEdgeColor", raster |-> raster,
                cli |-> extractEdgeColor(raster),
                web |-> webExtractEdgeColor(raster),
                older |-> olderExtractEdgeColor(raster)]
    /\ UNCHANGED <<genVars, frontVars>>

\* calculateLayout passes 1..circlesPerPage circles of the profile's cutting
\* diameter; larger counts are what the function's fallback is written for
CallCalculatePageLayout ==
  \E n \in 1..MaxCircles, size \in PinSizes :
    /\ call.fn = "none"
    /\ call' = [fn |-> "calculatePageLayout", circleCount |-> n, pinSize |-> size,
                circleDiameter |-> PIN_CONFIGS[size].circleSizePt,
                result |-> calculatePageLayout(n, PIN_CONFIGS[size].circleSizePt)]
    /\ UNCHANGED <<genVars, frontVars>>

\* image-processing.js drawTextOverlay (canvas preview): per line a native
\* strokeText in the outline colour, then fillText
canvasDrawTextOverlay(textLines, x, textColor, textOutline, textOutlineWidth) ==
  LET lineOps(line) ==
        (IF textOutline # "" /\ textOutlineWidth > 0
         THEN << [op |-> "strokeText", text |-> line.text, x |-> x, dx |-> 0, dy |-> 0,
                  color |-> textOutline, lineWidth |-> textOutlineWidth] >>
         ELSE <<>>)
        \o << [op |-> "fillText", text |-> line.text, x |-> x, dx |-> 0, dy |-> 0,
               color |-> textColor] >>
      lines[i \in 1..(Len(textLines) + 1)] ==
        IF i > Len(textLines) THEN <<>> ELSE lineOps(textLines[i]) \o lines[i + 1]
  IN lines[1]

\* web pdf-generator.js drawTextToPDF: one drawText per line; the
\* parameters _textOutline and _textOutlineWidth are not used
drawTextToPDF(textLines, x, textColor, textOutline, textOutlineWidth) ==
  [i \in 1..Len(textLines) |->
     [op |-> "drawText", text |-> textLines[i].text, x |-> x, dx |-> 0, dy |-> 0,
      color |-> parseColor(textColor)]]

\* one text block drawn at the centre of the first slot by the three renderers
CallDrawTextOverlay ==
  \E size \in PinSizes, n \in 1..2, textOutline \in {"", "black"}, textOutlineWidth \in 0..MaxOutlineWidth :
    LET textLines == [i \in 1..n |-> [text |-> i]]
        x == calculateLayout(1, PIN_CONFIGS[size])[1].x
    IN /\ call.fn = "none"
       /\ call' = [fn |-> "drawTextOverlay", pinSize |-> size, textLines |-> textLines,
                   textColor |-> "white", textOutline |-> textOutline,
                   textOutlineWidth |-> textOutlineWidth,
                   cli |-> drawTextOverlay(textLines, x, "white", textOutline, textOutlineWidth),
                   canvas |-> canvasDrawTextOverlay(textLines, x, "white", textOutline, textOutlineWidth),
                   pdf |-> drawTextToPDF(textLines, x, "white", textOutline, textOutlineWidth)]
       /\ UNCHANGED <<genVars, frontVars>>

InitFunctions ==
  /\ args = IdleArguments
  /\ pc = "idle"
  /\ circleIdx = 0
  /\ processedCircles = <<>>
  /\ doc = NoDocument
  /\ outputFile = "absent"
  /\ currentPage = -1
  /\ error = ""
  /\ call = NoCall
  /\ FrontEndIdle

NextFunctions ==
  \/ CallCalculateLayout
  \/ CallCreateImageDistribution
  \/ CallRenderCircle
  \/ CallProcessImage
  \/ CallExtractEdgeColor
  \/ CallCalculatePageLayout
  \/ CallDrawTextOverlay

SpecFunctions == InitFunctions /\ [][NextFunctions]_vars

(***************************************************************************)
(* interactive/index.ts: selectImagesWithPreview                           *)
(*                                                                         *)
(* A file is identified by its number k; strings are sequences of          *)
(* characters.  Every key handler runs to its first await (the image       *)
(* preview at the end of render) without interruption, so one key event is *)
(* one step.  selected is a Set: the order of Array.from(selected) is not  *)
(* modelled.                                                               *)
(***************************************************************************)
pageSize == 10

Digits == <<"0", "1", "2", "3", "4", "5", "6", "7", "8", "9">>

\* the ImageFileInfo of file k, as getImageFiles builds it
fileNameOf(k) == << (IF k = 2 THEN "a" ELSE IF k = 7 THEN "A" ELSE IF k % 2 = 0 THEN "b" ELSE "C"), Digits[(k \div 10) + 1], Digits[(k % 10) + 1] >>

fileSizeOf(k) == (k * 7) % 5

widthOf(k) == 1 + (k % 3)

heightOf(k) == 1 + (k % 2)

modifiedTimeOf(k) == (k * 3) % 11

ImageFileInfo(k) ==
  [file |-> k,
   fileName |-> fileNameOf(k),
   size |-> fileSizeOf(k),
   width |-> widthOf(k),
   height |-> heightOf(k),
   dimensions |-> << Digits[widthOf(k) + 1], "×", Digits[heightOf(k) + 1] >>,
   modifiedTime |-> modifiedTimeOf(k)]

\* String.prototype.toLowerCase
toLowerCaseChar(c) == IF c = "A" THEN "a" ELSE IF c = "B" THEN "b" ELSE IF c = "C" THEN "c" ELSE c

toLowerCase(str) == [i \in 1..Len(str) |-> toLowerCaseChar(str[i])]

\* String.prototype.trim
trim(str) == SelectSeq(str, LAMBDA c : c # " ")

\* String.prototype.includes
includes(str, query) == \E i \in 0..(Len(str) - Len(query)) : SubSeq(str, i + 1, i + Len(query)) = query

\* String.prototype.localeCompare on file names of three characters:
\* digits before letters, a letter's lower case before its upper case
collationRank(c) ==
  CASE c = "0" -> 0 [] c = "1" -> 1 [] c = "2" -> 2 [] c = "3" -> 3 [] c = "4" -> 4
    [] c = "5" -> 5 [] c = "6" -> 6 [] c = "7" -> 7 [] c = "8" -> 8 [] c = "9" -> 9
    [] c = "a" -> 10 [] c = "A" -> 11 [] c = "b" -> 12 [] c = "B" -> 13
    [] c = "c" -> 14 [] c = "C" -> 15

nameKey(name) == collationRank(name[1]) * 256 + collationRank(name[2]) * 16 + collationRank(name[3])

\* the value the comparator of sortImages orders by, ascending
sortKey(k, sortOption) ==
  CASE sortOption = "name"       -> nameKey(fileNameOf(k))
    [] sortOption = "size"       -> 0 - fileSizeOf(k)
    [] sortOption = "dimensions" -> 0 - widthOf(k) * heightOf(k)
    [] sortOption = "date"       -> 0 - modifiedTimeOf(k)

\* Array.prototype.sort is stable: an element goes behind the elements of
\* equal key that precede it
RECURSIVE insertSorted(_, _, _)
insertSorted(sorted, k, sortOption) ==
  IF sorted = <<>> THEN <<k>>
  ELSE IF sortKey(sorted[Len(sorted)], sortOption) <= sortKey(k, sortOption)
       THEN Append(sorted, k)
       ELSE Append(insertSorted(SubSeq(sorted, 1, Len(sorted) - 1), k, sortOption), sorted[Len(sorted)])

RECURSIVE sortFirst(_, _, _)
sortFirst(images, count, sortOption) ==
  IF count = 0 THEN <<>>
  ELSE insertSorted(sortFirst(images, count - 1, sortOption), images[count], sortOption)

sortImages(images, sortOption) == sortFirst(images, Len(images), sortOption)

filterImages(images, query) ==
  IF trim(query) = <<>> THEN images
  ELSE SelectSeq(images, LAMBDA k :
         \/ includes(toLowerCase(ImageFileInfo(k).fileName), toLowerCase(query))
         \/ includes(ImageFileInfo(k).dimensions, toLowerCase(query)))

SortOptions == <<"name", "size", "dimensions", "date">>

nextSortOption(sortOption) == SortOptions[((CHOOSE i \in 1..4 : SortOptions[i] = sortOption) % 4) + 1]

\* the characters the user types into the filter
FilterCharacters == {"1", "z"}

\* render(): recompute the list, pull currentIndex back into a non-empty list
render(index, offset, query, sortOption) ==
  LET list    == sortImages(filterImages(imageFiles, query), sortOption)
      outside == index >= Len(list) /\ Len(list) > 0
  IN [filteredAndSorted |-> list,
      currentIndex |-> IF outside THEN Len(list) - 1 ELSE index,
      scrollOffset |-> IF outside THEN MathMax(0, Len(list) - 1 - pageSize + 1) ELSE offset]

Rendered(index, offset, query, sortOption) ==
  LET r == render(index, offset, query, sortOption)
  IN /\ filteredAndSorted' = r.filteredAndSorted
     /\ currentIndex' = r.currentIndex
     /\ scrollOffset' = r.scrollOffset

Pending == [kind |-> "pending", images |-> {}]

\* the key listener is attached and input is grabbed
Listening == resolved = Pending

\* filter mode ---------------------------------------------------------------
KeyFilterEscape ==
  /\ Listening /\ showingFilterInput
  /\ showingFilterInput' = FALSE
  /\ Rendered(currentIndex, scrollOffset, filterQuery, sortBy)
  /\ UNCHANGED <<genVars, call, editorVars, imageFiles, selected, sortBy, filterQuery, resolved>>

KeyFilterBackspace ==
  /\ Listening /\ showingFilterInput
  /\ filterQuery' = SubSeq(filterQuery, 1, Len(filterQuery) - 1)
  /\ Rendered(currentIndex, scrollOffset, filterQuery', sortBy)
  /\ UNCHANGED <<genVars, call, editorVars, imageFiles, selected, sortBy, showingFilterInput, resolved>>

KeyFilterEnter ==
  /\ Listening /\ showingFilterInput
  /\ showingFilterInput' = FALSE
  /\ Rendered(currentIndex, scrollOffset, filterQuery, sortBy)
  /\ UNCHANGED <<genVars, call, editorVars, imageFiles, selected, sortBy, filterQuery, resolved>>

KeyFilterCharacter ==
  \E c \in FilterCharacters :
    /\ Listening /\ showingFilterInput
    /\ Len(filterQuery) < MaxQuery
    /\ filterQuery' = Append(filterQuery, c)
    /\ Rendered(currentIndex, scrollOffset, filterQuery', sortBy)
    /\ UNCHANGED <<genVars, call, editorVars, imageFiles, selected, sortBy, showingFilterInput, resolved>>

\* navigation mode -----------------------------------------------------------
KeyUp ==
  /\ Listening /\ ~showingFilterInput
  /\ currentIndex > 0
  /\ Rendered(currentIndex - 1,
              IF currentIndex - 1 < scrollOffset THEN currentIndex - 1 ELSE scrollOffset,
              filterQuery, sortBy)
  /\ UNCHANGED <<genVars, call, editorVars, imageFiles, selected, sortBy, filterQuery, showingFilterInput, resolved>>

KeyDown_noScroll ==
  /\ Listening /\ ~showingFilterInput
  /\ currentIndex < Len(filteredAndSorted) - 1
  /\ Rendered(currentIndex + 1, scrollOffset, filterQuery, sortBy)
  /\ UNCHANGED <<genVars, call, editorVars, imageFiles, selected, sortBy, filterQuery, showingFilterInput, resolved>>

KeyDown ==
  /\ Listening /\ ~showingFilterInput
  /\ currentIndex < Len(filteredAndSorted) - 1
  /\ Rendered(currentIndex + 1,
              IF currentIndex + 1 >= scrollOffset + pageSize
              THEN currentIndex + 1 - pageSize + 1 ELSE scrollOffset,
              filterQuery, sortBy)
  /\ UNCHANGED <<genVars, call, editorVars, imageFiles, selected, sortBy, filterQuery, showingFilterInput, resolved>>

\* filteredAndSorted[currentIndex].file: reading .file of undefined throws a
\* TypeError inside the async listener, before anything is changed; the
\* rejection is unhandled and ends the process
KeySpace ==
  /\ Listening /\ ~showingFilterInput
  /\ IF currentIndex + 1 \in DOMAIN filteredAndSorted
     THEN LET current == filteredAndSorted[currentIndex + 1]
          IN /\ selected' = IF current \in selected
                            THEN selected \ {current}
                            ELSE selected \cup {current}
             /\ Cardinality(selected') <= MaxSelected
             /\ Rendered(currentIndex, scrollOffset, filterQuery, sortBy)
             /\ UNCHANGED resolved
     ELSE /\ resolved' = [kind |-> "TypeError", images |-> {}]
          /\ UNCHANGED <<selected, currentIndex, scrollOffset, filteredAndSorted>>
  /\ UNCHANGED <<genVars, call, editorVars, imageFiles, sortBy, filterQuery, showingFilterInput>>

KeySelectAll ==
  /\ Listening /\ ~showingFilterInput
  /\ selected' = selected \cup {filteredAndSorted[i] : i \in 1..Len(filteredAndSorted)}
  /\ Cardinality(selected') <= MaxSelected
  /\ Rendered(currentIndex, scrollOffset, filterQuery, sortBy)
  /\ UNCHANGED <<genVars, call, editorVars, imageFiles, sortBy, filterQuery, showingFilterInput, resolved>>

KeySelectNone ==
  /\ Listening /\ ~showingFilterInput
  /\ selected' = {}
  /\ Rendered(currentIndex, scrollOffset, filterQuery, sortBy)
  /\ UNCHANGED <<genVars, call, editorVars, imageFiles, sortBy, filterQuery, showingFilterInput, resolved>>

KeySort ==
  /\ Listening /\ ~showingFilterInput
  /\ sortBy' = nextSortOption(sortBy)
  /\ Rendered(0, 0, filterQuery, sortBy')
  /\ UNCHANGED <<genVars, call, editorVars, imageFiles, selected, filterQuery, showingFilterInput, resolved>>

KeySlash ==
  /\ Listening /\ ~showingFilterInput
  /\ showingFilterInput' = TRUE
  /\ Rendered(currentIndex, scrollOffset, filterQuery, sortBy)
  /\ UNCHANGED <<genVars, call, editorVars, imageFiles, selected, sortBy, filterQuery, resolved>>

KeyEnter_visibleOnly ==
  /\ Listening /\ ~showingFilterInput
  /\ resolved' = [kind |-> "confirmed", images |-> selected \cap {filteredAndSorted[i] : i \in 1..Len(filteredAndSorted)}]
  /\ UNCHANGED <<genVars, call, editorVars, imageFiles, selected, currentIndex, scrollOffset, sortBy, filterQuery, showingFilterInput, filteredAndSorted>>

KeyEnter ==
  /\ Listening /\ ~showingFilterInput
  /\ resolved' = [kind |-> "confirmed", images |-> selected]
  /\ UNCHANGED <<genVars, call, editorVars, imageFiles, selected, currentIndex, scrollOffset, sortBy, filterQuery, showingFilterInput, filteredAndSorted>>

\* 'q' or CTRL_C
KeyCancel ==
  /\ Listening /\ ~showingFilterInput
  /\ resolved' = [kind |-> "cancelled", images |-> {}]
  /\ UNCHANGED <<genVars, call, editorVars, imageFiles, selected, currentIndex, scrollOffset, sortBy, filterQuery, showingFilterInput, filteredAndSorted>>

\* the directories the selector is run on: a single image, two images, and
\* more images than one page of the list shows
DirectorySizes == {1, 2, MaxFiles}

\* runInteractiveMode calls the selector only when the directory has images;
\* the state after the first render
InitSelector ==
  /\ args = IdleArguments
  /\ pc = "idle"
  /\ circleIdx = 0
  /\ processedCircles = <<>>
  /\ doc = NoDocument
  /\ outputFile = "absent"
  /\ currentPage = -1
  /\ error = ""
  /\ call = NoCall
  /\ imageFiles \in {[k \in 1..n |-> k] : n \in DirectorySizes}
  /\ selected = {}
  /\ currentIndex = 0
  /\ scrollOffset = 0
  /\ sortBy = "name"
  /\ filterQuery = <<>>
  /\ showingFilterInput = FALSE
  /\ filteredAndSorted = sortImages(filterImages(imageFiles, <<>>), "name")
  /\ resolved = Pending
  /\ EditorIdle

NextSelector ==
  \/ KeyFilterEscape
  \/ KeyFilterBackspace
  \/ KeyFilterEnter
  \/ KeyFilterCharacter
  \/ KeyUp
  \/ KeyDown
  \/ KeySpace
  \/ KeySelectAll
  \/ KeySelectNone
  \/ KeySort
  \/ KeySlash
  \/ KeyEnter
  \/ KeyCancel

SpecSelector == InitSelector /\ [][NextSelector]_vars

(***************************************************************************)
(* web/src/app.js: the pin editor                                          *)
(*                                                                         *)
(* Zoom is in hundredths, the zoom slider in percent, offsets and pointer  *)
(* coordinates in pixels (even coordinates, so that delta * 0.5 is exact). *)
(* The zoom tab is the active tab and the images are not filled with their *)
(* edge colour, so renderPinPreview awaits processImageForCircle only.     *)
(* Every event handler runs to completion; a renderPinPreview call runs to *)
(* its await and paints when the awaited bitmap arrives.  The bitmaps of   *)
(* different calls are produced in parallel by createImageBitmap and can   *)
(* arrive in any order.                                                    *)
(***************************************************************************)
\* values the zoom slider is dragged to, positions of the mouse or of a
\* finger, distances of two fingers when the second lands and when they move
SliderValues == {0, 300}

Pointers == {<<0, 0>>, <<2, 4>>}

PinchStartDistances == {1}

PinchMoveDistances == {1, 4}

\* state.images.push({...}) of the file input listener
NewImage == [zoom |-> 100, offsetX |-> 0, offsetY |-> 0]

\* the image with field values replaced
WithZoom(img, zoom) == [img EXCEPT !.zoom = zoom]

WithOffset(img, x, y) == [img EXCEPT !.offsetX = x, !.offsetY = y]

\* saveCurrentPinSettings: img.zoom = Math.max(0.1, 1 + slider / 100)
saveCurrentPinSettings(imgs, index, slider) ==
  [imgs EXCEPT ![index + 1] = WithZoom(imgs[index + 1], MathMax(10, 100 + slider))]

\* the arguments renderPinPreview hands to processImageForCircle
renderJob(imgs, index) ==
  [pin |-> index, zoom |-> imgs[index + 1].zoom, offsetX |-> imgs[index + 1].offsetX,
   offsetY |-> imgs[index + 1].offsetY]

\* renderPinPreview up to its await: save the settings, clear the canvas
\* (setting canvas.width), call processImageForCircle
renderPinPreview(imgs, index, slider) ==
  /\ Len(pendingRenders) < MaxPending
  /\ stateImages' = saveCurrentPinSettings(imgs, index, slider)
  /\ canvasPreview' = BlankCanvas
  /\ pendingRenders' = Append(pendingRenders, renderJob(stateImages', index))

\* updatePinEditor: controls and touch state from the current image, render
updatePinEditor(imgs, index) ==
  /\ sliderZoom' = imgs[index + 1].zoom - 100
  /\ touchState' = [touchState EXCEPT !.lastOffsetX = imgs[index + 1].offsetX,
                                      !.lastOffsetY = imgs[index + 1].offsetY]
  /\ renderPinPreview(imgs, index, sliderZoom')

Editing == stateImages # <<>>

CurrentImage == stateImages[currentImageIndex + 1]

WithinPan(x) == -MaxPan <= x /\ x <= MaxPan

\* the pan of a move to pointer p: offset = lastOffset + delta * 0.5
Panned(p) ==
  WithOffset(CurrentImage,
             touchState.lastOffsetX + (p[1] - touchState.startX) \div 2,
             touchState.lastOffsetY + (p[2] - touchState.startY) \div 2)

PanTo(p) ==
  /\ WithinPan(Panned(p).offsetX)
  /\ renderPinPreview([stateImages EXCEPT ![currentImageIndex + 1] = Panned(p)],
                      currentImageIndex, sliderZoom)

otherVars == <<genVars, call, selectorVars>>

\* pin navigation (header buttons) --------------------------------------------
PrevPin ==
  /\ Editing
  /\ currentImageIndex > 0
  /\ currentImageIndex' = currentImageIndex - 1
  /\ updatePinEditor(saveCurrentPinSettings(stateImages, currentImageIndex, sliderZoom),
                     currentImageIndex')
  /\ UNCHANGED <<otherVars, touchCount>>

NextPin ==
  /\ Editing
  /\ currentImageIndex < Len(stateImages) - 1
  /\ currentImageIndex' = currentImageIndex + 1
  /\ updatePinEditor(saveCurrentPinSettings(stateImages, currentImageIndex, sliderZoom),
                     currentImageIndex')
  /\ UNCHANGED <<otherVars, touchCount>>

\* controls --------------------------------------------------------------------
SliderZoomInput ==
  \E value \in SliderValues :
    /\ Editing
    /\ sliderZoom' = value
    /\ renderPinPreview(stateImages, currentImageIndex, value)
    /\ UNCHANGED <<otherVars, currentImageIndex, touchState, touchCount>>

ResetTransform ==
  /\ Editing
  /\ touchState' = [touchState EXCEPT !.lastOffsetX = 0, !.lastOffsetY = 0]
  /\ sliderZoom' = 0
  /\ renderPinPreview([stateImages EXCEPT ![currentImageIndex + 1] = NewImage],
                      currentImageIndex, 0)
  /\ UNCHANGED <<otherVars, currentImageIndex, touchCount>>

\* touch gestures ----------------------------------------------------------------
TouchStartOne ==
  \E p \in Pointers :
    /\ Editing
    /\ touchCount = 0
    /\ touchCount' = 1
    /\ touchState' = [touchState EXCEPT !.isPanning = TRUE, !.isPinching = FALSE,
                                        !.startX = p[1], !.startY = p[2]]
    /\ UNCHANGED <<otherVars, stateImages, currentImageIndex, sliderZoom, pendingRenders, canvasPreview>>

TouchStartTwo ==
  \E d \in PinchStartDistances :
    /\ Editing
    /\ touchCount = 1
    /\ touchCount' = 2
    /\ touchState' = [touchState EXCEPT !.isPanning = FALSE, !.isPinching = TRUE,
                                        !.initialDistance = d,
                                        !.initialZoom = CurrentImage.zoom]
    /\ UNCHANGED <<otherVars, stateImages, currentImageIndex, sliderZoom, pendingRenders, canvasPreview>>

\* a further finger: e.touches.length is neither 1 nor 2
TouchStartMore ==
  /\ Editing
  /\ touchCount >= 2
  /\ touchCount < MaxFingers
  /\ touchCount' = touchCount + 1
  /\ UNCHANGED <<otherVars, stateImages, currentImageIndex, sliderZoom, touchState, pendingRenders, canvasPreview>>

TouchMovePan ==
  \E p \in Pointers :
    /\ Editing
    /\ touchState.isPanning /\ touchCount = 1
    /\ PanTo(p)
    /\ UNCHANGED <<otherVars, currentImageIndex, sliderZoom, touchState, touchCount>>

\* img.zoom = Math.max(0.1, Math.min(4, initialZoom * scale)); the slider
\* follows, and renderPinPreview reads the zoom back from the slider
TouchMovePinch ==
  \E d \in PinchMoveDistances :
    LET zoom == MathMax(10, MathMin(400, (touchState.initialZoom * d) \div touchState.initialDistance))
    IN /\ Editing
       /\ ~(touchState.isPanning /\ touchCount = 1)
       /\ touchState.isPinching /\ touchCount = 2
       /\ sliderZoom' = zoom - 100
       /\ renderPinPreview([stateImages EXCEPT ![currentImageIndex + 1] = WithZoom(CurrentImage, zoom)],
                           currentImageIndex, sliderZoom')
       /\ UNCHANGED <<otherVars, currentImageIndex, touchState, touchCount>>

\* all fingers lifted
TouchEndAll ==
  /\ Editing
  /\ touchCount = 1
  /\ touchCount' = 0
  /\ touchState' = [touchState EXCEPT
                      !.isPanning = FALSE,
                      !.isPinching = FALSE,
                      !.lastOffsetX = IF touchState.isPanning THEN CurrentImage.offsetX ELSE @,
                      !.lastOffsetY = IF touchState.isPanning THEN CurrentImage.offsetY ELSE @]
  /\ UNCHANGED <<otherVars, stateImages, currentImageIndex, sliderZoom, pendingRenders, canvasPreview>>

\* one finger lifted, one left: a pinch turns into a pan
TouchEndToOne ==
  \E p \in Pointers :
    /\ Editing
    /\ touchCount = 2
    /\ touchCount' = 1
    /\ touchState' = IF touchState.isPinching
                     THEN [touchState EXCEPT !.isPinching = FALSE, !.isPanning = TRUE,
                                             !.startX = p[1], !.startY = p[2]]
                     ELSE touchState
    /\ UNCHANGED <<otherVars, stateImages, currentImageIndex, sliderZoom, pendingRenders, canvasPreview>>

\* one of more than two fingers lifted: neither branch of touchend
TouchEndMore ==
  /\ Editing
  /\ touchCount > 2
  /\ touchCount' = touchCount - 1
  /\ UNCHANGED <<otherVars, stateImages, currentImageIndex, sliderZoom, touchState, pendingRenders, canvasPreview>>

\* mouse drag --------------------------------------------------------------------
MouseDown ==
  \E p \in Pointers :
    /\ Editing
    /\ touchState' = [touchState EXCEPT !.isPanning = TRUE, !.startX = p[1], !.startY = p[2]]
    /\ UNCHANGED <<otherVars, stateImages, currentImageIndex, sliderZoom, touchCount, pendingRenders, canvasPreview>>

MouseMove ==
  \E p \in Pointers :
    /\ Editing
    /\ touchState.isPanning
    /\ PanTo(p)
    /\ UNCHANGED <<otherVars, currentImageIndex, sliderZoom, touchState, touchCount>>

MouseUp ==
  /\ Editing
  /\ touchState.isPanning
  /\ touchState' = [touchState EXCEPT !.isPanning = FALSE,
                                      !.lastOffsetX = CurrentImage.offsetX,
                                      !.lastOffsetY = CurrentImage.offsetY]
  /\ UNCHANGED <<otherVars, stateImages, currentImageIndex, sliderZoom, touchCount, pendingRenders, canvasPreview>>

MouseLeave ==
  /\ Editing
  /\ touchState' = [touchState EXCEPT !.isPanning = FALSE]
  /\ UNCHANGED <<otherVars, stateImages, currentImageIndex, sliderZoom, touchCount, pendingRenders, canvasPreview>>

\* the bitmap of one of the pending renderPinPreview calls arrives: the call
\* paints the pin it was started for, with the bitmap it asked for
RenderCompletes ==
  \E i \in 1..Len(pendingRenders) :
    /\ canvasPreview' = pendingRenders[i]
    /\ pendingRenders' = SubSeq(pendingRenders, 1, i - 1) \o SubSeq(pendingRenders, i + 1, Len(pendingRenders))
    /\ UNCHANGED <<otherVars, stateImages, currentImageIndex, sliderZoom, touchState, touchCount>>

\* the click on btnNextEdit: the editor opens on the first image
InitEditor ==
  /\ args = IdleArguments
  /\ pc = "idle"
  /\ circleIdx = 0
  /\ processedCircles = <<>>
  /\ doc = NoDocument
  /\ outputFile = "absent"
  /\ currentPage = -1
  /\ error = ""
  /\ call = NoCall
  /\ SelectorIdle
  /\ stateImages \in {[k \in 1..n |-> NewImage] : n \in 1..MaxPins}
  /\ currentImageIndex = 0
  /\ sliderZoom = 0
  /\ touchState = InitialTouchState
  /\ touchCount = 0
  /\ pendingRenders = << renderJob(stateImages, 0) >>
  /\ canvasPreview = BlankCanvas

NextEditor ==
  \/ PrevPin
  \/ NextPin
  \/ SliderZoomInput
  \/ ResetTransform
  \/ TouchStartOne
  \/ TouchStartTwo
  \/ TouchStartMore
  \/ TouchMovePan
  \/ TouchMovePinch
  \/ TouchEndAll
  \/ TouchEndToOne
  \/ TouchEndMore
  \/ MouseDown
  \/ MouseMove
  \/ MouseUp
  \/ MouseLeave
  \/ RenderCompletes

SpecEditor == InitEditor /\ [][NextEditor]_vars

(***************************************************************************)
(* Properties of calculateLayout (checked under SpecFunctions)             *)
(***************************************************************************)
\* number of positions of a layout that lie on page p
CirclesOnPage(layout, p) == Cardinality({k \in 1..Len(layout) : layout[k].page = p})

\* C1: calculateLayout(n, profile) returns exactly n positions in slot
\* order (slot s lies on page floor(s / circlesPerPage)), page p holds
\* min(circlesPerPage, n - p * circlesPerPage) of them, and getTotalPages of
\* the result is ceil(n / circlesPerPage); calculateLayout(0) = [] and
\* getTotalPages([]) = 0.
C1_LayoutPages ==
  call.fn = "calculateLayout" =>
    LET n   == call.totalCircles
        cpp == PIN_CONFIGS[call.pinSize].circlesPerPage
        res == call.result
        k   == n \div cpp
        r   == n % cpp
    IN /\ Len(res) = n
       /\ \A s \in 1..Len(res) : res[s].page = (s - 1) \div cpp
       /\ \A p \in 0..(k - 1) : CirclesOnPage(res, p) = cpp
       /\ CirclesOnPage(res, k) = r
       /\ \A s \in 1..Len(res) : res[s].page \in 0..k
       /\ (n <= cpp => \A s \in 1..Len(res) : res[s].page = 0)
       /\ call.totalPages = (IF r = 0 THEN k ELSE k + 1)
       /\ (n = 0 => res = <<>> /\ call.totalPages = 0)

\* n = 20 * 2 + 5 on the 32mm profile: two full pages and a page of 5
C1_Witness ==
  /\ call.fn = "calculateLayout"
  /\ call.pinSize = "32mm"
  /\ call.totalCircles = 45
  /\ CirclesOnPage(call.result, 0) = 20
  /\ CirclesOnPage(call.result, 1) = 20
  /\ CirclesOnPage(call.result, 2) = 5
  /\ call.totalPages = 3

Abs(v) == IF v < 0 THEN -v ELSE v

\* C8: two distinct slots of one page lie in distinct cells of a grid of
\* pitch circleDiameter + spacing, so their centres are at least
\* circleDiameter apart (already along one axis).
C8_NoOverlap ==
  call.fn = "calculateLayout" =>
    LET res   == call.result
        d     == PIN_CONFIGS[call.pinSize].circleSizePt
        pitch == d + A4_PAGE.spacing
    IN \A i, j \in 1..Len(res) :
         (i < j /\ res[i].page = res[j].page) =>
           LET dx == Abs(res[i].x - res[j].x)
               dy == Abs(res[i].y - res[j].y)
           IN /\ dx % pitch = 0
              /\ dy % pitch = 0
              /\ (dx # 0 \/ dy # 0)
              /\ (dx >= d \/ dy >= d)

\* a full 58mm page: slots 0 and 1 are neighbours of one row, slots 0 and 2
\* neighbours of one column
C8_Witness ==
  /\ call.fn = "calculateLayout"
  /\ call.pinSize = "58mm"
  /\ call.totalCircles = 6
  /\ call.result[2].x - call.result[1].x = 70 * 566930 + A4_PAGE.spacing
  /\ call.result[2].y = call.result[1].y
  /\ call.result[3].y - call.result[1].y = 70 * 566930 + A4_PAGE.spacing
  /\ call.result[3].x = call.result[1].x

(***************************************************************************)
(* Properties of createImageDistribution (checked under SpecFunctions)     *)
(***************************************************************************)
\* how often item i occurs in a distribution
Occurrences(dist, i) == Cardinality({s \in 1..Len(dist) : dist[s] = i})

\* C2: for itemCount <= totalSlots the result is item 0 repeated c(0) times,
\* then item 1 repeated c(1) times, ...: it is non-decreasing in slot order
\* (copies contiguous, never interleaved), holds only items below itemCount,
\* and item i occurs c(i) = floor(totalSlots / itemCount)
\* + (1 if i < totalSlots mod itemCount) times.
C2_GroupedDistribution ==
  (call.fn = "createImageDistribution" /\ call.imageCount <= call.totalCircles) =>
    LET ic  == call.imageCount
        ts  == call.totalCircles
        res == call.result
    IN /\ \A s \in 1..Len(res) : res[s] \in 0..(ic - 1)
       /\ \A s \in 1..(Len(res) - 1) : res[s] <= res[s + 1]
       /\ \A i \in 0..(ic - 1) :
            Occurrences(res, i) = (ts \div ic) + (IF i < ts % ic THEN 1 ELSE 0)

\* createDistribution(3, 20): seven 0s, seven 1s, six 2s
C2_Witness ==
  /\ call.fn = "createImageDistribution"
  /\ call.imageCount = 3
  /\ call.totalCircles = 20
  /\ call.result = <<0, 0, 0, 0, 0, 0, 0, 1, 1, 1, 1, 1, 1, 1, 2, 2, 2, 2, 2, 2>>

\* C3: for itemCount <= totalSlots the result has length exactly totalSlots.
C3_DistributionLength ==
  (call.fn = "createImageDistribution" /\ call.imageCount <= call.totalCircles) =>
    Len(call.result) = call.totalCircles

\* a slot count the item count does not divide
C3_Witness ==
  /\ call.fn = "createImageDistribution"
  /\ call.imageCount = 7
  /\ call.totalCircles = 20
  /\ Len(call.result) = 20

(***************************************************************************)
(* Properties of generatePinPDF (checked under Spec)                       *)
(***************************************************************************)
\* the slots drawn on the document so far, page after page
RECURSIVE SlotsFromPage(_, _)
SlotsFromPage(pages, p) ==
  IF p > Len(pages) THEN <<>> ELSE pages[p] \o SlotsFromPage(pages, p + 1)

DrawnSlots == SlotsFromPage(doc.pages, 1)

IsImageOp(o) == o.op = "image"

IsFillOp(o) == o.op = "fillCircle"

IsStrokeOp(o) == o.op = "strokeCircle"

IsTextOp(o) == o.op = "text"

NoImageDrawn ==
  \A p \in 1..Len(doc.pages) : \A k \in 1..Len(doc.pages[p]) :
    SelectSeq(doc.pages[p][k].ops, IsImageOp) = <<>>

\* C5 as stated: with no images the finished template has circlesPerPage
\* slots, or textBlocks.length slots if that is larger and duplicate is off,
\* or max(textBlocks.length, circlesPerPage) if duplicate is on, and no
\* circle has an image.
C5_AsStated ==
  (pc = "done" /\ Len(args.imagePaths) = 0) =>
    LET nt  == Len(args.textPins)
        cpp == config.circlesPerPage
    IN /\ Len(DrawnSlots) = (IF nt > cpp THEN nt ELSE cpp)
       /\ NoImageDrawn

\* C5 amended: with no images the finished template has circlesPerPage
\* slots when there are no text blocks, textBlocks.length slots when there
\* are text blocks and duplicate is off (also when that is fewer than
\* circlesPerPage), and max(textBlocks.length, circlesPerPage) slots when
\* there are text blocks and duplicate is on; no circle has an image.
C5_TemplateSlots ==
  (pc \in {"template", "done"} /\ Len(args.imagePaths) = 0) =>
    LET nt  == Len(args.textPins)
        cpp == config.circlesPerPage
    IN /\ NoImageDrawn
       /\ pc = "done" =>
            Len(DrawnSlots) = IF nt = 0 THEN cpp
                              ELSE IF args.duplicate
                                   THEN (IF nt > cpp THEN nt ELSE cpp)
                                   ELSE nt

\* two text blocks, no duplication: a template of 2 circles, not of 20
C5_Witness ==
  /\ pc = "done"
  /\ Len(args.imagePaths) = 0
  /\ Len(args.textPins) = 2
  /\ ~args.duplicate
  /\ args.pinSize = "32mm"
  /\ Len(DrawnSlots) = 2

\* C6: slots are drawn in increasing slot order, every slot on the page of
\* its position; a page is appended exactly when a slot's page index
\* differs from the current page, so the pages are those of indices
\* 0..currentPage, each appended once and before the slots drawn on it, and
\* the finished document has ceil(totalSlots / circlesPerPage) pages.
C6_PagesInOrder ==
  doc.created =>
    LET cpp   == config.circlesPerPage
        pos   == positions
        drawn == DrawnSlots
    IN /\ Len(drawn) = circleIdx
       /\ \A k \in 1..Len(drawn) : drawn[k].circleIdx = k - 1
       /\ \A p \in 1..Len(doc.pages) :
            /\ doc.pages[p] # <<>>
            /\ \A k \in 1..Len(doc.pages[p]) :
                 pos[doc.pages[p][k].circleIdx + 1].page = p - 1
       /\ Len(doc.pages) = currentPage + 1
       /\ pc = "done" =>
            /\ circleIdx = totalCircles
            /\ Len(doc.pages) = (totalCircles + cpp - 1) \div cpp

\* a finished three-page document
C6_Witness ==
  /\ pc = "done"
  /\ Len(args.imagePaths) > 0
  /\ Len(doc.pages) = 3
  /\ doc.pages[3][1].circleIdx = 12

\* C7: when processImage fails for a slot the failure is thrown to the
\* caller and generation stops there: no document, no page, no output
\* stream; a document is only ever created once every slot has its own
\* processed image (no slot is skipped).
C7_FailureAborts ==
  /\ pc = "failed" =>
       /\ error = "processImage"
       /\ ~doc.created
       /\ doc.pages = <<>>
       /\ outputFile = "absent"
       /\ ~ENABLED Next
  /\ pc = "process" => (~doc.created /\ outputFile = "absent")
  /\ (pc \in {"render", "done"} /\ Len(args.imagePaths) > 0) =>
       /\ error = ""
       /\ Len(processedCircles) = totalCircles
       /\ LET dist == imageDistribution
          IN \A k \in 1..Len(processedCircles) :
               processedCircles[k].foreground = args.imagePaths[dist[k] + 1]

\* the fourth slot fails after three were prepared
C7_Witness ==
  /\ pc = "failed"
  /\ circleIdx = 3
  /\ Len(processedCircles) = 3
  /\ error = "processImage"

\* the background colour the claim prescribes for a slot showing `image`
\* (0 = no image): the explicit colour, else the sampled edge colour when
\* fill is enabled and an image was sampled, else none ("")
PrescribedBackground(image) ==
  IF args.backgroundColor # "" THEN args.backgroundColor
  ELSE IF args.fill /\ image # 0 THEN hexColor(imageEdgeColor(image))
  ELSE ""

\* C9: the background of every drawn slot is filled with the explicit
\* background colour whenever one is set, with the sampled edge colour only
\* when none is set and fill is enabled, and with nothing when neither is
\* available: the disc filled last, under the image, has the prescribed
\* colour, and no disc at all is filled in a background colour otherwise
\* (only the ring's own two discs when a border is drawn).
C9_BackgroundPrecedence ==
  \A p \in 1..Len(doc.pages) : \A k \in 1..Len(doc.pages[p]) :
    LET ops    == doc.pages[p][k].ops
        images == SelectSeq(ops, IsImageOp)
        image  == IF images = <<>> THEN 0 ELSE images[1].image
        fills  == SelectSeq(ops, IsFillOp)
        want   == PrescribedBackground(image)
        ring   == args.borderColor # "" /\ args.borderWidth > 0
    IN /\ Len(fills) = (IF ring THEN 2 ELSE IF want # "" THEN 1 ELSE 0)
       /\ want # "" => fills[Len(fills)].color = want
       /\ (want = "" /\ ring) => fills[2].color = "white"
       /\ ring => fills[1].color = args.borderColor
       /\ \A f \in 1..Len(ops) :
            (IsFillOp(ops[f]) /\ images # <<>>) =>
              \E i \in 1..Len(ops) : i > f /\ IsImageOp(ops[i])

\* an explicit colour and fill together: red wins over the edge colour of
\* image 1 (#288007); and fill alone: the edge colour is used
C9_Witness ==
  /\ pc = "done"
  /\ Len(args.imagePaths) = 1
  /\ ~args.duplicate
  /\ args.fill
  /\ args.backgroundColor = "red"
  /\ args.borderColor = ""
  /\ SelectSeq(doc.pages[1][1].ops, IsFillOp)[1].color = "red"
  /\ hexColor(imageEdgeColor(1)) = "#288007"

\* C10: every drawn slot, with or without an image, has exactly one cutting
\* outline, a stroked (unfilled) circle of radius circleDiameter / 2 centred
\* on the slot's position; and a slot without an image gets exactly the
\* operations of a slot with an image (and no sampled colour), less the
\* image draw: background, border, outline and text.
C10_CuttingOutline ==
  LET pos == positions
  IN \A p \in 1..Len(doc.pages) : \A k \in 1..Len(doc.pages[p]) :
       LET slot     == doc.pages[p][k]
           ops      == slot.ops
           position == pos[slot.circleIdx + 1]
           strokes  == SelectSeq(ops, IsStrokeOp)
           NotImageOp(o) == ~IsImageOp(o)
       IN /\ Len(strokes) = 1
          /\ strokes[1].r = config.circleSizePt \div 2
          /\ strokes[1].x = position.x
          /\ strokes[1].y = position.y
          /\ Len(args.imagePaths) = 0 =>
               ops = SelectSeq(
                       drawCircularImage(
                         0, <<>>, position.x, position.y, config.pinSizePt,
                         config.circleSizePt, args.backgroundColor, args.borderColor,
                         MmToPt(args.borderWidth),
                         textPinAt(args.textPins, templateTextDistribution[slot.circleIdx + 1]),
                         args.textColor, args.textOutline, args.textOutlineWidth),
                       NotImageOp)

\* a template slot with background, border and text: two discs, the
\* outline, the text, and no image
C10_Witness ==
  /\ pc = "done"
  /\ Len(args.imagePaths) = 0
  /\ Len(args.textPins) = 1
  /\ args.backgroundColor = "red"
  /\ args.borderColor = "black"
  /\ args.borderWidth = 1
  /\ Len(SelectSeq(doc.pages[1][1].ops, IsFillOp)) = 2
  /\ Len(SelectSeq(doc.pages[1][1].ops, IsStrokeOp)) = 1
  /\ SelectSeq(doc.pages[1][1].ops, IsTextOp) # <<>>
  /\ SelectSeq(doc.pages[1][1].ops, IsImageOp) = <<>>

(***************************************************************************)
(* The image draw and the border ring of generatePinPDF (checked under     *)
(* Spec)                                                                   *)
(***************************************************************************)
\* the point at (dx, dy) from a centre lies in the disc of radius r around
\* it; the lengths are whole millimetres here, so the squares stay small
InDisc(dx, dy, r) ==
  LET mm == MmToPt(1)
  IN (dx \div mm) * (dx \div mm) + (dy \div mm) * (dy \div mm)
       <= (r \div mm) * (r \div mm)

\* the image operation is drawn under a clipping path that is the disc of
\* radius r around (x, y)
ClippedToDisc(o, x, y, r) ==
  /\ "clip" \in DOMAIN o
  /\ o.clip = [x |-> x, y |-> y, r |-> r]

\* C11: every image draw is clipped to the disc of pin radius centred on
\* the slot's position, so that nothing of the square raster is painted
\* outside the pin disc: an image operation either carries that clipping
\* path, or all four corners of the rectangle it paints lie in the pin disc.
C11_ImageClipped ==
  LET pos == positions
  IN \A p \in 1..Len(doc.pages) : \A k \in 1..Len(doc.pages[p]) :
       LET slot      == doc.pages[p][k]
           position  == pos[slot.circleIdx + 1]
           pinRadius == config.pinSizePt \div 2
       IN \A i \in 1..Len(slot.ops) :
            LET o == slot.ops[i]
            IN IsImageOp(o) =>
                 \/ ClippedToDisc(o, position.x, position.y, pinRadius)
                 \/ \A cx \in {o.x, o.x + o.width} : \A cy \in {o.y, o.y + o.height} :
                      InDisc(cx - position.x, cy - position.y, pinRadius)

\* C12: in every drawn slot that has an image and a border ring, the ring
\* (the disc filled in the border colour) is drawn after the image.
C12_RingAfterImage ==
  (args.borderColor # "" /\ args.borderWidth > 0) =>
    \A p \in 1..Len(doc.pages) : \A k \in 1..Len(doc.pages[p]) :
      LET ops == doc.pages[p][k].ops
      IN \A f \in 1..Len(ops) : \A i \in 1..Len(ops) :
           (/\ IsFillOp(ops[f])
            /\ ops[f].color = args.borderColor
            /\ IsImageOp(ops[i])) => i < f

(***************************************************************************)
(* The border ring of the two renderers (checked under SpecFunctions)      *)
(***************************************************************************)
\* a ring is asked for: a border colour and a positive width
RingEnabled(imageState) == imageState.borderColor # "" /\ imageState.borderWidth > 0

\* the CLI's ring: the discs filled before the image when a ring is asked
\* for, the outer one in the border colour and the cut-out
CliRingDiscs(ops) ==
  SelectSeq(ops, LAMBDA o : o.op = "fillCircle")

\* the web application's ring: the stroked circles that are neither the
\* cutting outline (black, 1pt) nor the pin guide (grey, 0.5pt)
WebRingStrokes(ops) ==
  SelectSeq(ops, LAMBDA o : /\ o.op = "drawCircle"
                            /\ "borderWidth" \in DOMAIN o
                            /\ o.borderWidth \notin {200000, 100000})

\* the annulus a stroked circle covers, as twice its inner and outer radius:
\* the stroke is centred on the circle, half its width on either side
StrokeAnnulus(o) ==
  [inner2 |-> o.size2 - o.borderWidth, outer2 |-> o.size2 + o.borderWidth]

\* the annulus left of a disc of radius `outer` once the disc of radius
\* `inner` is painted over it
DiscsAnnulus(outer, inner) == [inner2 |-> 2 * inner.r, outer2 |-> 2 * outer.r]

\* C13: with a border colour and borderWidthMm > 0 the ring covers exactly
\* the annulus from circleDiameter / 2 - borderWidthMm * 2.83465 to
\* circleDiameter / 2, in the CLI's two-discs implementation and in the web
\* application's stroked-circle implementation alike; with an empty colour
\* or a width of 0 neither draws a ring.
C13_RingAnnulus ==
  call.fn = "renderCircle" =>
    LET cfg     == PIN_CONFIGS[call.pinSize]
        state   == call.imageState
        claimed == [inner2 |-> cfg.circleSizePt - 2 * MmToPt(state.borderWidth),
                    outer2 |-> cfg.circleSizePt]
        strokes == WebRingStrokes(call.web)
        discs   == CliRingDiscs(call.cli)
    IN IF RingEnabled(state)
       THEN /\ Len(discs) = 2
            /\ discs[1].color = state.borderColor
            /\ DiscsAnnulus(discs[1], discs[2]) = claimed
            /\ Len(strokes) = 1
            /\ StrokeAnnulus(strokes[1]) = claimed
       ELSE /\ strokes = <<>>
            /\ \A k \in 1..Len(discs) : discs[k].r = cfg.circleSizePt \div 2

(***************************************************************************)
(* Properties of the image transform (checked under SpecFunctions)         *)
(***************************************************************************)
\* n is Math.round(v / unit)
IsRounded(n, v, unit) ==
  /\ 2 * n * unit <= 2 * v + unit
  /\ 2 * v + unit < 2 * (n + 1) * unit

\* the two transformers' results of the call
Transformed == {call.cli, call.web}

\* C14: with zoom = 1 and both offsets 0, a square source image of exactly
\* the pin diameter comes out unmodified: the net scale factor is 1, pixel
\* (0, 0) of the prepared raster is pixel (0, 0) of the source and the raster
\* has the size of the source, so nothing is cropped away.
C14_IdentityTransform ==
  (/\ call.fn = "processImage"
   /\ call.zoom = 10 /\ call.offsetX = 0 /\ call.offsetY = 0
   /\ call.source.width = MathRoundPt(PIN_CONFIGS[call.pinSize].pinSizePt)
   /\ call.source.height = call.source.width) =>
    \A t \in Transformed :
      /\ t.scale.num = t.scale.den
      /\ t.foreground.originX = 0
      /\ t.foreground.originY = 0
      /\ t.foreground.width = call.source.width
      /\ t.foreground.height = call.source.height

\* C15: for every zoom and offset, the raster either transformer hands to
\* the renderer is the boundary-sized raster cropped to a square of side
\* round(pinDiameter) taken at round((circleDiameter - pinDiameter) / 2) on
\* both axes, the crop window lying inside the round(circleDiameter) raster.
C15_CropToPin ==
  call.fn = "processImage" =>
    LET cfg == PIN_CONFIGS[call.pinSize]
    IN \A t \in Transformed :
         /\ IsRounded(t.boundarySize, cfg.circleSizePt, 200000)
         /\ t.foreground.cropped
         /\ IsRounded(t.foreground.width, cfg.pinSizePt, 200000)
         /\ t.foreground.height = t.foreground.width
         /\ IsRounded(t.foreground.cropLeft, cfg.circleSizePt - cfg.pinSizePt, 400000)
         /\ t.foreground.cropTop = t.foreground.cropLeft
         /\ 0 <= t.foreground.cropLeft
         /\ t.foreground.cropLeft + t.foreground.width <= t.boundarySize

\* C16: either transformer extracts a viewport exactly when zoom >= 1 or an
\* offset is non-zero; the working canvas then has side zoomedSize =
\* round(boundarySize * zoom) when zoom >= 1 and round(1.5 * boundarySize)
\* when zoom < 1, and the centred window of side boundarySize lies inside it
\* on both axes, whatever the offsets, so the extracted raster is a
\* boundarySize square.
C16_ViewportExtraction ==
  call.fn = "processImage" =>
    \A t \in Transformed :
      LET v == t.viewport
          b == t.boundarySize
      IN /\ v.extraction <=> (call.zoom >= 10 \/ call.offsetX # 0 \/ call.offsetY # 0)
         /\ IsRounded(t.zoomedSize, b * call.zoom, 10)
         /\ v.extraction =>
              /\ call.zoom >= 10 => v.canvasSize = t.zoomedSize
              /\ call.zoom < 10 => IsRounded(v.canvasSize, 3 * b, 2)
              /\ 0 <= v.extractLeft /\ v.extractLeft + b <= v.canvasSize
              /\ 0 <= v.extractTop /\ v.extractTop + b <= v.canvasSize
              /\ v.width = b /\ v.height = b

\* zoom 0.5 panned by (40, -40) on the 32mm profile: a canvas of 183 pixels,
\* the 122-pixel window taken at (31, 31)
C16_Witness ==
  /\ call.fn = "processImage"
  /\ call.pinSize = "32mm"
  /\ call.zoom = 5
  /\ call.offsetX = MaxOffset
  /\ call.offsetY = 0 - MaxOffset
  /\ call.cli.viewport.extraction
  /\ call.cli.viewport.canvasSize = 183
  /\ call.cli.viewport.extractLeft = 31
  /\ call.cli.boundarySize = 122
  /\ call.web.viewport = call.cli.viewport

(***************************************************************************)
(* Properties of extractEdgeColor (checked under SpecFunctions)            *)
(***************************************************************************)
\* no pixel of the raster has an alpha above the threshold
NoPixelAbove(raster, threshold) ==
  \A x \in 0..(raster.width - 1) : \A y \in 0..(raster.height - 1) :
    pixelAt(raster, x, y).a <= threshold

\* every component of the colour is a number a colour can hold
IsColor(color) == \A c \in 1..3 : color[c] \in 0..255

\* C17: sampling a raster with no pixel above the sampler's alpha threshold
\* returns the sampler's fixed fallback colour (black in the CLI, white in
\* the web application), and no sampler yields a component that is not a
\* number, whatever the size of the raster from 1x1 up.
C17_TransparentFallback ==
  call.fn = "extractEdgeColor" =>
    /\ NoPixelAbove(call.raster, 10) => call.cli = <<0, 0, 0>>
    /\ NoPixelAbove(call.raster, 128) => call.web = <<255, 255, 255>>
    /\ IsColor(call.cli)
    /\ IsColor(call.web)
    /\ NoPixelAbove(call.raster, 0) =>
         \A c \in 1..3 : call.older[c] # NotFinite

(***************************************************************************)
(* The text blocks of generatePinPDF (checked under Spec)                  *)
(***************************************************************************)
\* the text blocks (numbered from 1) a slot's operations draw
ShownTextBlocks(ops) == {ops[i].text : i \in {j \in 1..Len(ops) : IsTextOp(ops[j])}}

\* C18 as stated: with duplicate disabled slot i shows text block i, and no
\* text when i is not below the number of text blocks, so that no text block
\* is on more than one slot.
C18_AsStated ==
  ~args.duplicate =>
    LET drawn == DrawnSlots
    IN \A k \in 1..Len(drawn) :
         ShownTextBlocks(drawn[k].ops) =
           IF drawn[k].circleIdx < Len(args.textPins)
           THEN {drawn[k].circleIdx + 1}
           ELSE {}

\* C18 amended: without images and with duplicate disabled slot i shows text
\* block i.  With images the text blocks are spread over the slots whether
\* or not duplicate is enabled: with nt text blocks and at least as many
\* slots, block b takes the run of floor(slots / nt) slots (one more for the
\* first slots mod nt blocks) that follows the runs of the blocks before it;
\* with more text blocks than slots slot i shows block i; with no text
\* blocks no slot shows text.
C18_TextMapping ==
  LET drawn == DrawnSlots
      nt    == Len(args.textPins)
      total == totalCircles
      q     == IF nt = 0 THEN 0 ELSE total \div nt
      r     == IF nt = 0 THEN 0 ELSE total % nt
      start(b) == b * q + MathMin(b, r)
  IN \A k \in 1..Len(drawn) :
       LET s     == drawn[k].circleIdx
           shown == ShownTextBlocks(drawn[k].ops)
       IN /\ nt = 0 => shown = {}
          /\ (nt > 0 /\ Len(args.imagePaths) = 0 /\ ~args.duplicate) => shown = {s + 1}
          /\ nt > total => shown = {s + 1}
          /\ (nt > 0 /\ nt <= total) =>
               \E b \in 0..(nt - 1) :
                 /\ start(b) <= s
                 /\ s < start(b + 1)
                 /\ shown = {b + 1}

\* three images, one text block, duplicate disabled: the block is on all
\* three slots
C18_Witness ==
  /\ pc = "done"
  /\ ~args.duplicate
  /\ Len(args.imagePaths) = 3
  /\ Len(args.textPins) = 1
  /\ Len(DrawnSlots) = 3
  /\ \A k \in 1..3 : ShownTextBlocks(DrawnSlots[k].ops) = {1}

RankIn(v, S) == Cardinality({u \in S : u < v})

\* C20: on every full page of a layout the circles form a grid of 4 columns
\* by 5 rows on the 32mm profile (20 circles of 43 mm) and of 2 columns by 3
\* rows on the 58mm profile (6 circles of 70 mm), filled row by row, and the
\* grid lies inside the page margins.
C20_FullPageGrid ==
  call.fn = "calculateLayout" =>
    LET cfg  == PIN_CONFIGS[call.pinSize]
        cpp  == cfg.circlesPerPage
        res  == call.result
        cols == IF call.pinSize = "32mm" THEN 4 ELSE 2
        rows == IF call.pinSize = "32mm" THEN 5 ELSE 3
        R    == cfg.circleSizePt \div 2
    IN \A p \in 0..((call.totalCircles \div cpp) - 1) :
         LET xs == {res[p * cpp + k].x : k \in 1..cpp}
             ys == {res[p * cpp + k].y : k \in 1..cpp}
         IN /\ cols * rows = cpp
            /\ Cardinality(xs) = cols
            /\ Cardinality(ys) = rows
            /\ \A k \in 0..(cpp - 1) :
                 LET position == res[p * cpp + k + 1]
                 IN /\ position.page = p
                    /\ RankIn(position.x, xs) = k % cols
                    /\ RankIn(position.y, ys) = k \div cols
                    /\ A4_PAGE.margin <= position.x - R
                    /\ position.x + R <= A4_PAGE.pageWidth - A4_PAGE.margin
                    /\ A4_PAGE.margin <= position.y - R
                    /\ position.y + R <= A4_PAGE.pageHeight - A4_PAGE.margin

\* a full page of the 32mm profile: 20 circles in 4 columns and 5 rows (and
\* the page layout of 6 circles of 70 mm has 2 columns and 3 rows)
C20_Witness ==
  /\ call.fn = "calculateLayout"
  /\ call.pinSize = "32mm"
  /\ call.totalCircles = 20
  /\ Cardinality({call.result[k].x : k \in 1..20}) = 4
  /\ Cardinality({call.result[k].y : k \in 1..20}) = 5
  /\ calculatePageLayout(6, PIN_CONFIGS["58mm"].circleSizePt).cols = 2
  /\ calculatePageLayout(6, PIN_CONFIGS["58mm"].circleSizePt).rows = 3

(***************************************************************************)
(* The grid of a partially filled page (checked under SpecFunctions)       *)
(***************************************************************************)
\* C21: the circles are arranged in the same fixed grid on every page: the
\* i-th circle of any page, the partially filled last page included, is at
\* the position of the i-th circle of a full page.
C21_FixedGrid ==
  call.fn = "calculateLayout" =>
    LET cfg  == PIN_CONFIGS[call.pinSize]
        cpp  == cfg.circlesPerPage
        full == calculateLayout(cpp, cfg)
    IN \A k \in 1..Len(call.result) :
         /\ call.result[k].x = full[((k - 1) % cpp) + 1].x
         /\ call.result[k].y = full[((k - 1) % cpp) + 1].y

(***************************************************************************)
(* Three images on a page of six circles                                   *)
(***************************************************************************)
\* number of drawn slots that show image img
ImageOccurrences(drawn, img) == Cardinality({k \in 1..Len(drawn) : \E j \in 1..Len(drawn[k].ops) : IsImageOp(drawn[k].ops[j]) /\ drawn[k].ops[j].image = img})

ThreeImagesDuplicated ==
  /\ args.duplicate
  /\ Len(args.imagePaths) = 3
  /\ args.pinSize = "58mm"

RowsFit(rows, d) == rows * d + (rows - 1) * A4_PAGE.spacing <= A4_PAGE.pageHeight - 2 * A4_PAGE.margin

\* floor((availableWidth + spacing) / (diameter + spacing))
MaxColsOf(d) == (A4_PAGE.pageWidth - 2 * A4_PAGE.margin + A4_PAGE.spacing) \div (d + A4_PAGE.spacing)

\* C25: calculatePageLayout picks the smallest column count in 1..maxCols
\* whose rows = ceil(n/cols) fit the available height; if no column count in
\* that range fits, it uses cols = ceil(sqrt(n)); in both cases it returns a
\* layout with rows = ceil(n/cols).
C25_SmallestFittingCols ==
  call.fn = "calculatePageLayout" =>
    LET n    == call.circleCount
        d    == call.circleDiameter
        cols == call.result.cols
        rows == call.result.rows
        someFit == \E c \in 1..MaxColsOf(d) : RowsFit(CeilDiv(n, c), d)
    IN /\ DOMAIN call.result = {"rows", "cols", "startX", "startY"}
       /\ cols >= 1
       /\ rows = CeilDiv(n, cols)
       /\ rows * cols >= n
       /\ someFit =>
            /\ cols \in 1..MaxColsOf(d)
            /\ RowsFit(rows, d)
            /\ \A c \in 1..(cols - 1) : ~RowsFit(CeilDiv(n, c), d)
       /\ ~someFit =>
            /\ cols * cols >= n
            /\ (cols - 1) * (cols - 1) < n

\* 20 circles of 43 mm: 1, 2 and 3 columns are too tall, 4 columns fit (and
\* 21 circles of 43 mm fit in no column count up to maxCols = 4, so the
\* fallback gives 5 columns by 5 rows)
C25_Witness ==
  /\ call.fn = "calculatePageLayout"
  /\ call.circleCount = 20
  /\ call.pinSize = "32mm"
  /\ MaxColsOf(call.circleDiameter) = 4
  /\ call.result.cols = 4
  /\ call.result.rows = 5
  /\ ~RowsFit(CeilDiv(20, 3), call.circleDiameter)
  /\ \A c \in 1..4 : ~RowsFit(CeilDiv(21, c), call.circleDiameter)
  /\ calculatePageLayout(21, call.circleDiameter).cols = 5
  /\ calculatePageLayout(21, call.circleDiameter).rows = 5

(***************************************************************************)
(* Circles inside the printable area (checked under SpecFunctions)         *)
(***************************************************************************)
\* the circle of diameter d centred at position lies inside the margins
InsidePrintableArea(position, d) == /\ A4_PAGE.margin <= position.x - d \div 2 /\ position.x + d \div 2 <= A4_PAGE.pageWidth - A4_PAGE.margin /\ A4_PAGE.margin <= position.y - d \div 2 /\ position.y + d \div 2 <= A4_PAGE.pageHeight - A4_PAGE.margin

\* C26: for both profiles and every number 1..circlesPerPage of circles on a
\* page, hence on every page of every layout, every circle lies entirely
\* inside the printable area: margin <= x - r, x + r <= pageWidth - margin,
\* margin <= y - r and y + r <= pageHeight - margin, r = circleDiameter / 2.
C26_InsideMargins ==
  call.fn = "calculateLayout" =>
    LET d == PIN_CONFIGS[call.pinSize].circleSizePt
    IN /\ d % 2 = 0
       /\ \A k \in 1..Len(call.result) : InsidePrintableArea(call.result[k], d)

\* 25 circles of the 32mm profile: a full page and a last page of 5 circles,
\* the last circle of each inside the margins, the full page's last circle
\* less than one circle spacing away from the right margin
C26_Witness ==
  /\ call.fn = "calculateLayout"
  /\ call.pinSize = "32mm"
  /\ call.totalCircles = 25
  /\ call.result[20].page = 0
  /\ call.result[25].page = 1
  /\ InsidePrintableArea(call.result[20], PIN_CONFIGS["32mm"].circleSizePt)
  /\ InsidePrintableArea(call.result[25], PIN_CONFIGS["32mm"].circleSizePt)
  /\ call.result[20].x + PIN_CONFIGS["32mm"].circleSizePt > A4_PAGE.pageWidth - A4_PAGE.margin

(***************************************************************************)
(* Text outline and fill (checked under SpecFunctions)                     *)
(***************************************************************************)
\* the operations of ops that draw the line with the given text, in order
LineOps(ops, text) == SelectSeq(ops, LAMBDA o : o.text = text)

\* o draws the text in the fill colour at the unshifted position
IsFillText(o, fillColor) == o.op \in {"text", "fillText", "drawText"} /\ o.dx = 0 /\ o.dy = 0 /\ o.color = fillColor

\* lo is the outline of width w followed by the fill text: eight copies in
\* the outline colour at the offsets (+-w,0), (0,+-w), (+-w,+-w), or one
\* native stroke of that colour and width, and then the fill text
OutlineThenFill(lo, fillColor, outline, w) ==
  \/ /\ Len(lo) = 9
     /\ \A k \in 1..8 : lo[k].op = "text" /\ lo[k].color = outline
     /\ {<<lo[k].dx, lo[k].dy>> : k \in 1..8} = {<<dx, dy>> \in {-w, 0, w} \X {-w, 0, w} : <<dx, dy>> # <<0, 0>>}
     /\ IsFillText(lo[9], fillColor)
  \/ /\ Len(lo) = 2
     /\ lo[1].op = "strokeText" /\ lo[1].color = outline /\ lo[1].lineWidth = w
     /\ lo[1].dx = 0 /\ lo[1].dy = 0
     /\ IsFillText(lo[2], fillColor)

\* every line of the block is drawn as the claim states
TextDrawnAsStated(ops, textLines, fillColor, outline, w) ==
  \A i \in 1..Len(textLines) :
    LET lo == LineOps(ops, textLines[i].text)
    IN IF outline # "" /\ w > 0
       THEN OutlineThenFill(lo, fillColor, outline, w)
       ELSE Len(lo) = 1 /\ IsFillText(lo[1], fillColor)

\* C23: for every line of a non-empty text block, in every renderer (CLI
\* PDF, web canvas preview, web PDF export): if an outline colour is set and
\* the outline width w is positive, the outline is drawn before the fill
\* text (8 copies in the outline colour at the offsets (+-w,0), (0,+-w),
\* (+-w,+-w), or an equivalent native stroke) and the fill text is drawn on
\* top at the unshifted position; otherwise only the fill text is drawn.
C23_OutlineBeforeFill ==
  call.fn = "drawTextOverlay" =>
    /\ TextDrawnAsStated(call.cli, call.textLines, call.textColor, call.textOutline, call.textOutlineWidth)
    /\ TextDrawnAsStated(call.canvas, call.textLines, call.textColor, call.textOutline, call.textOutlineWidth)
    /\ TextDrawnAsStated(call.pdf, call.textLines, parseColor(call.textColor), call.textOutline, call.textOutlineWidth)

(***************************************************************************)
(* The interactive image selector (checked under SpecSelector)             *)
(***************************************************************************)
\* the files of the list computed by the last render
VisibleFiles == {filteredAndSorted[i] : i \in 1..Len(filteredAndSorted)}

\* what one key event may do to the selection and to the promise
SelectionStep ==
  /\ resolved' # resolved =>
       /\ resolved = Pending
       /\ \/ resolved' = [kind |-> "confirmed", images |-> selected] /\ selected' = selected
          \/ resolved' = [kind |-> "cancelled", images |-> {}]
          \/ resolved'.kind = "TypeError" /\ selected' = selected
  /\ selected' # selected =>
       \/ selected' = {}
       \/ selected' = selected \cup VisibleFiles
       \/ \E f \in VisibleFiles : /\ f \in selected => selected' = selected \ {f}
                                  /\ f \notin selected => selected' = selected \cup {f}

C27_SpaceIndexValid ==
  /\ (Listening /\ ~showingFilterInput) => currentIndex + 1 \in DOMAIN filteredAndSorted
  /\ resolved.kind # "TypeError"

\* C28: scrollOffset <= currentIndex < scrollOffset + pageSize after every
\* key event, and 0 <= currentIndex < list length whenever the rendered list
\* is not empty: the cursor row is inside the visible window.
C28_CursorInWindow ==
  /\ scrollOffset <= currentIndex
  /\ currentIndex < scrollOffset + pageSize
  /\ currentIndex >= 0
  /\ Len(filteredAndSorted) > 0 => currentIndex < Len(filteredAndSorted)

\* the list is longer than a page and was scrolled: the cursor on the last
\* row of the window, on the last image
C28_Witness ==
  /\ resolved = Pending
  /\ Len(filteredAndSorted) > pageSize
  /\ scrollOffset > 0
  /\ currentIndex = scrollOffset + pageSize - 1
  /\ currentIndex = Len(filteredAndSorted) - 1

(***************************************************************************)
(* The web editor's preview and pan gestures (checked under SpecEditor)    *)
(***************************************************************************)
\* C29: once every pending render has completed, the preview canvas shows
\* the current pin with its latest settings: a render that started earlier
\* never paints over the result of a render that started later.
C29_PreviewShowsLatest ==
  (Editing /\ pendingRenders = <<>>) =>
    canvasPreview = renderJob(stateImages, currentImageIndex)

\* a pan begins while none is in progress: mousedown, a single-finger
\* touchstart, or a pinch turning into a pan when one finger lifts
PanBegins ==
  /\ ~touchState.isPanning
  /\ \/ MouseDown
     \/ TouchStartOne
     \/ TouchEndToOne /\ touchState.isPinching

\* C30: whenever a pan begins, touchState.lastOffsetX / lastOffsetY equal
\* the current pin's offsetX / offsetY, so the first move of the new pan
\* does not make the image jump, for any sequence of mouse and touch events.
C30_PanContinuity ==
  [][PanBegins =>
       /\ touchState'.lastOffsetX = stateImages'[currentImageIndex' + 1].offsetX
       /\ touchState'.lastOffsetY = stateImages'[currentImageIndex' + 1].offsetY]_vars

====
